---- MODULE Spec2Model ----
(***************************************************************************)
(* PDF outline extraction: the run.py pipeline (is_likely_heading,         *)
(* extract_outline, main) and the main.py pipeline (PDFOutlineExtractor,   *)
(* main).                                                                  *)
(*                                                                         *)
(* Representation.  A text is a sequence of one-character strings, so that *)
(* strip, lower, isupper, split, endswith and the regular expressions of   *)
(* the source are computed character by character.  A font size is an      *)
(* integer number of hundredths of a point (12.25pt is 1225) and stands    *)
(* for the float nearest to it; a vertical position and a page height are  *)
(* integers.                                                               *)
(***************************************************************************)
EXTENDS Integers, Sequences, FiniteSets, TLC

VARIABLES program, console, files, idx, outputs, log

vars == <<program, console, files, idx, outputs, log>>

(***************************************************************************)
(* Characters and the str methods the source uses                          *)
(*                                                                         *)
(* A character is a token: a printable ASCII character is itself ("a",     *)
(* " "); tab, line feed, form feed and carriage return are "\t", "\n",     *)
(* "\f" and "\r"; every other character is "u" followed by its code point  *)
(* in four or more lowercase hexadecimal digits (U+00A0 is "u00a0", U+2022 *)
(* is "u2022"; so is the grave accent, "u0060", which no TLA+ string can   *)
(* hold).  The four control characters are also accepted in the code       *)
(* point form ("u000a").  The character classes are those of the Unicode   *)
(* database of CPython 3.11 (Unicode 14.0), which str.strip, str.split,    *)
(* str.lower, str.islower, str.isupper and the patterns \s and \d of the   *)
(* re module consult.  A class is written as the string of its tokens,     *)
(* the tokens of one length together, and read with Chars.                 *)
(***************************************************************************)
\* the pattern classes [A-Z] and [a-z]
UpperChars == <<"A","B","C","D","E","F","G","H","I","J","K","L","M",
                "N","O","P","Q","R","S","T","U","V","W","X","Y","Z">>
LowerChars == <<"a","b","c","d","e","f","g","h","i","j","k","l","m",
                "n","o","p","q","r","s","t","u","v","w","x","y","z">>

\* the glyphs of the bullet class of run.py line 25
Bullet == "u2022"
BulletChars ==
  {Bullet, "u00b7", "u25aa", "u25ab", "u25e6", "u2023", "u2043"}

\* the line feed, the one character that `.` and a final `$` treat apart
NewlineChars == {"\n", "u000a"}

\* the tokens a string holds, w characters to a token
Chars(s, w) == {SubSeq(s, w * k - w + 1, w * k) : k \in 1..(Len(s) \div w)}

\* the pairs of tokens a string holds, each of w characters
Pairs(s, w) ==
  {<<SubSeq(s, 2 * w * k - 2 * w + 1, 2 * w * k - w),
     SubSeq(s, 2 * w * k - w + 1, 2 * w * k)>> : k \in 1..(Len(s) \div (2 * w))}

\* str.isspace() and \s: the whitespace characters
SpaceChars ==
  {" ", "\t", "\n", "\f", "\r"}
  \cup Chars("u0009u000au000bu000cu000du001cu001du001eu001fu0085u00a0u1680u2000" \o
             "u2001u2002u2003u2004u2005u2006u2007u2008u2009u200au2028u2029u202f" \o
             "u205fu3000", 5)

\* str.isdecimal() and \d: the decimal digits
DigitChars ==
  Chars("0123456789", 1)
  \cup Chars("u0660u0661u0662u0663u0664u0665u0666u0667u0668u0669u06f0u06f1u06f2u06f3u06f4" \o
             "u06f5u06f6u06f7u06f8u06f9u07c0u07c1u07c2u07c3u07c4u07c5u07c6u07c7u07c8u07c9" \o
             "u0966u0967u0968u0969u096au096bu096cu096du096eu096fu09e6u09e7u09e8u09e9u09ea" \o
             "u09ebu09ecu09edu09eeu09efu0a66u0a67u0a68u0a69u0a6au0a6bu0a6cu0a6du0a6eu0a6f" \o
             "u0ae6u0ae7u0ae8u0ae9u0aeau0aebu0aecu0aedu0aeeu0aefu0b66u0b67u0b68u0b69u0b6a" \o
             "u0b6bu0b6cu0b6du0b6eu0b6fu0be6u0be7u0be8u0be9u0beau0bebu0becu0bedu0beeu0bef" \o
             "u0c66u0c67u0c68u0c69u0c6au0c6bu0c6cu0c6du0c6eu0c6fu0ce6u0ce7u0ce8u0ce9u0cea" \o
             "u0cebu0cecu0cedu0ceeu0cefu0d66u0d67u0d68u0d69u0d6au0d6bu0d6cu0d6du0d6eu0d6f" \o
             "u0de6u0de7u0de8u0de9u0deau0debu0decu0dedu0deeu0defu0e50u0e51u0e52u0e53u0e54" \o
             "u0e55u0e56u0e57u0e58u0e59u0ed0u0ed1u0ed2u0ed3u0ed4u0ed5u0ed6u0ed7u0ed8u0ed9" \o
             "u0f20u0f21u0f22u0f23u0f24u0f25u0f26u0f27u0f28u0f29u1040u1041u1042u1043u1044" \o
             "u1045u1046u1047u1048u1049u1090u1091u1092u1093u1094u1095u1096u1097u1098u1099" \o
             "u17e0u17e1u17e2u17e3u17e4u17e5u17e6u17e7u17e8u17e9u1810u1811u1812u1813u1814" \o
             "u1815u1816u1817u1818u1819u1946u1947u1948u1949u194au194bu194cu194du194eu194f" \o
             "u19d0u19d1u19d2u19d3u19d4u19d5u19d6u19d7u19d8u19d9u1a80u1a81u1a82u1a83u1a84" \o
             "u1a85u1a86u1a87u1a88u1a89u1a90u1a91u1a92u1a93u1a94u1a95u1a96u1a97u1a98u1a99" \o
             "u1b50u1b51u1b52u1b53u1b54u1b55u1b56u1b57u1b58u1b59u1bb0u1bb1u1bb2u1bb3u1bb4" \o
             "u1bb5u1bb6u1bb7u1bb8u1bb9u1c40u1c41u1c42u1c43u1c44u1c45u1c46u1c47u1c48u1c49" \o
             "u1c50u1c51u1c52u1c53u1c54u1c55u1c56u1c57u1c58u1c59ua620ua621ua622ua623ua624" \o
             "ua625ua626ua627ua628ua629ua8d0ua8d1ua8d2ua8d3ua8d4ua8d5ua8d6ua8d7ua8d8ua8d9" \o
             "ua900ua901ua902ua903ua904ua905ua906ua907ua908ua909ua9d0ua9d1ua9d2ua9d3ua9d4" \o
             "ua9d5ua9d6ua9d7ua9d8ua9d9ua9f0ua9f1ua9f2ua9f3ua9f4ua9f5ua9f6ua9f7ua9f8ua9f9" \o
             "uaa50uaa51uaa52uaa53uaa54uaa55uaa56uaa57uaa58uaa59uabf0uabf1uabf2uabf3uabf4" \o
             "uabf5uabf6uabf7uabf8uabf9uff10uff11uff12uff13uff14uff15uff16uff17uff18uff19", 5)
  \cup Chars("u104a0u104a1u104a2u104a3u104a4u104a5u104a6u104a7u104a8u104a9u10d30u10d31" \o
             "u10d32u10d33u10d34u10d35u10d36u10d37u10d38u10d39u11066u11067u11068u11069" \o
             "u1106au1106bu1106cu1106du1106eu1106fu110f0u110f1u110f2u110f3u110f4u110f5" \o
             "u110f6u110f7u110f8u110f9u11136u11137u11138u11139u1113au1113bu1113cu1113d" \o
             "u1113eu1113fu111d0u111d1u111d2u111d3u111d4u111d5u111d6u111d7u111d8u111d9" \o
             "u112f0u112f1u112f2u112f3u112f4u112f5u112f6u112f7u112f8u112f9u11450u11451" \o
             "u11452u11453u11454u11455u11456u11457u11458u11459u114d0u114d1u114d2u114d3" \o
             "u114d4u114d5u114d6u114d7u114d8u114d9u11650u11651u11652u11653u11654u11655" \o
             "u11656u11657u11658u11659u116c0u116c1u116c2u116c3u116c4u116c5u116c6u116c7" \o
             "u116c8u116c9u11730u11731u11732u11733u11734u11735u11736u11737u11738u11739" \o
             "u118e0u118e1u118e2u118e3u118e4u118e5u118e6u118e7u118e8u118e9u11950u11951" \o
             "u11952u11953u11954u11955u11956u11957u11958u11959u11c50u11c51u11c52u11c53" \o
             "u11c54u11c55u11c56u11c57u11c58u11c59u11d50u11d51u11d52u11d53u11d54u11d55" \o
             "u11d56u11d57u11d58u11d59u11da0u11da1u11da2u11da3u11da4u11da5u11da6u11da7" \o
             "u11da8u11da9u16a60u16a61u16a62u16a63u16a64u16a65u16a66u16a67u16a68u16a69" \o
             "u16ac0u16ac1u16ac2u16ac3u16ac4u16ac5u16ac6u16ac7u16ac8u16ac9u16b50u16b51" \o
             "u16b52u16b53u16b54u16b55u16b56u16b57u16b58u16b59u1d7ceu1d7cfu1d7d0u1d7d1" \o
             "u1d7d2u1d7d3u1d7d4u1d7d5u1d7d6u1d7d7u1d7d8u1d7d9u1d7dau1d7dbu1d7dcu1d7dd" \o
             "u1d7deu1d7dfu1d7e0u1d7e1u1d7e2u1d7e3u1d7e4u1d7e5u1d7e6u1d7e7u1d7e8u1d7e9" \o
             "u1d7eau1d7ebu1d7ecu1d7edu1d7eeu1d7efu1d7f0u1d7f1u1d7f2u1d7f3u1d7f4u1d7f5" \o
             "u1d7f6u1d7f7u1d7f8u1d7f9u1d7fau1d7fbu1d7fcu1d7fdu1d7feu1d7ffu1e140u1e141" \o
             "u1e142u1e143u1e144u1e145u1e146u1e147u1e148u1e149u1e2f0u1e2f1u1e2f2u1e2f3" \o
             "u1e2f4u1e2f5u1e2f6u1e2f7u1e2f8u1e2f9u1e950u1e951u1e952u1e953u1e954u1e955" \o
             "u1e956u1e957u1e958u1e959u1fbf0u1fbf1u1fbf2u1fbf3u1fbf4u1fbf5u1fbf6u1fbf7" \o
             "u1fbf8u1fbf9", 6)

\* the characters with str.islower(), str.isupper(), and the titlecase letters
LowercaseChars ==
  Chars("abcdefghijklmnopqrstuvwxyz", 1)
  \cup Chars("u00aau00b5u00bau00dfu00e0u00e1u00e2u00e3u00e4u00e5u00e6u00e7u00e8u00e9u00ea" \o
             "u00ebu00ecu00edu00eeu00efu00f0u00f1u00f2u00f3u00f4u00f5u00f6u00f8u00f9u00fa" \o
             "u00fbu00fcu00fdu00feu00ffu0101u0103u0105u0107u0109u010bu010du010fu0111u0113" \o
             "u0115u0117u0119u011bu011du011fu0121u0123u0125u0127u0129u012bu012du012fu0131" \o
             "u0133u0135u0137u0138u013au013cu013eu0140u0142u0144u0146u0148u0149u014bu014d" \o
             "u014fu0151u0153u0155u0157u0159u015bu015du015fu0161u0163u0165u0167u0169u016b" \o
             "u016du016fu0171u0173u0175u0177u017au017cu017eu017fu0180u0183u0185u0188u018c" \o
             "u018du0192u0195u0199u019au019bu019eu01a1u01a3u01a5u01a8u01aau01abu01adu01b0" \o
             "u01b4u01b6u01b9u01bau01bdu01beu01bfu01c6u01c9u01ccu01ceu01d0u01d2u01d4u01d6" \o
             "u01d8u01dau01dcu01ddu01dfu01e1u01e3u01e5u01e7u01e9u01ebu01edu01efu01f0u01f3" \o
             "u01f5u01f9u01fbu01fdu01ffu0201u0203u0205u0207u0209u020bu020du020fu0211u0213" \o
             "u0215u0217u0219u021bu021du021fu0221u0223u0225u0227u0229u022bu022du022fu0231" \o
             "u0233u0234u0235u0236u0237u0238u0239u023cu023fu0240u0242u0247u0249u024bu024d" \o
             "u024fu0250u0251u0252u0253u0254u0255u0256u0257u0258u0259u025au025bu025cu025d" \o
             "u025eu025fu0260u0261u0262u0263u0264u0265u0266u0267u0268u0269u026au026bu026c" \o
             "u026du026eu026fu0270u0271u0272u0273u0274u0275u0276u0277u0278u0279u027au027b" \o
             "u027cu027du027eu027fu0280u0281u0282u0283u0284u0285u0286u0287u0288u0289u028a" \o
             "u028bu028cu028du028eu028fu0290u0291u0292u0293u0295u0296u0297u0298u0299u029a" \o
             "u029bu029cu029du029eu029fu02a0u02a1u02a2u02a3u02a4u02a5u02a6u02a7u02a8u02a9" \o
             "u02aau02abu02acu02adu02aeu02afu02b0u02b1u02b2u02b3u02b4u02b5u02b6u02b7u02b8" \o
             "u02c0u02c1u02e0u02e1u02e2u02e3u02e4u0345u0371u0373u0377u037au037bu037cu037d" \o
             "u0390u03acu03adu03aeu03afu03b0u03b1u03b2u03b3u03b4u03b5u03b6u03b7u03b8u03b9" \o
             "u03bau03bbu03bcu03bdu03beu03bfu03c0u03c1u03c2u03c3u03c4u03c5u03c6u03c7u03c8" \o
             "u03c9u03cau03cbu03ccu03cdu03ceu03d0u03d1u03d5u03d6u03d7u03d9u03dbu03ddu03df" \o
             "u03e1u03e3u03e5u03e7u03e9u03ebu03edu03efu03f0u03f1u03f2u03f3u03f5u03f8u03fb" \o
             "u03fcu0430u0431u0432u0433u0434u0435u0436u0437u0438u0439u043au043bu043cu043d" \o
             "u043eu043fu0440u0441u0442u0443u0444u0445u0446u0447u0448u0449u044au044bu044c" \o
             "u044du044eu044fu0450u0451u0452u0453u0454u0455u0456u0457u0458u0459u045au045b" \o
             "u045cu045du045eu045fu0461u0463u0465u0467u0469u046bu046du046fu0471u0473u0475" \o
             "u0477u0479u047bu047du047fu0481u048bu048du048fu0491u0493u0495u0497u0499u049b" \o
             "u049du049fu04a1u04a3u04a5u04a7u04a9u04abu04adu04afu04b1u04b3u04b5u04b7u04b9" \o
             "u04bbu04bdu04bfu04c2u04c4u04c6u04c8u04cau04ccu04ceu04cfu04d1u04d3u04d5u04d7" \o
             "u04d9u04dbu04ddu04dfu04e1u04e3u04e5u04e7u04e9u04ebu04edu04efu04f1u04f3u04f5" \o
             "u04f7u04f9u04fbu04fdu04ffu0501u0503u0505u0507u0509u050bu050du050fu0511u0513" \o
             "u0515u0517u0519u051bu051du051fu0521u0523u0525u0527u0529u052bu052du052fu0560" \o
             "u0561u0562u0563u0564u0565u0566u0567u0568u0569u056au056bu056cu056du056eu056f" \o
             "u0570u0571u0572u0573u0574u0575u0576u0577u0578u0579u057au057bu057cu057du057e" \o
             "u057fu0580u0581u0582u0583u0584u0585u0586u0587u0588u10d0u10d1u10d2u10d3u10d4" \o
             "u10d5u10d6u10d7u10d8u10d9u10dau10dbu10dcu10ddu10deu10dfu10e0u10e1u10e2u10e3" \o
             "u10e4u10e5u10e6u10e7u10e8u10e9u10eau10ebu10ecu10edu10eeu10efu10f0u10f1u10f2" \o
             "u10f3u10f4u10f5u10f6u10f7u10f8u10f9u10fau10fdu10feu10ffu13f8u13f9u13fau13fb" \o
             "u13fcu13fdu1c80u1c81u1c82u1c83u1c84u1c85u1c86u1c87u1c88u1d00u1d01u1d02u1d03" \o
             "u1d04u1d05u1d06u1d07u1d08u1d09u1d0au1d0bu1d0cu1d0du1d0eu1d0fu1d10u1d11u1d12" \o
             "u1d13u1d14u1d15u1d16u1d17u1d18u1d19u1d1au1d1bu1d1cu1d1du1d1eu1d1fu1d20u1d21" \o
             "u1d22u1d23u1d24u1d25u1d26u1d27u1d28u1d29u1d2au1d2bu1d2cu1d2du1d2eu1d2fu1d30" \o
             "u1d31u1d32u1d33u1d34u1d35u1d36u1d37u1d38u1d39u1d3au1d3bu1d3cu1d3du1d3eu1d3f" \o
             "u1d40u1d41u1d42u1d43u1d44u1d45u1d46u1d47u1d48u1d49u1d4au1d4bu1d4cu1d4du1d4e" \o
             "u1d4fu1d50u1d51u1d52u1d53u1d54u1d55u1d56u1d57u1d58u1d59u1d5au1d5bu1d5cu1d5d" \o
             "u1d5eu1d5fu1d60u1d61u1d62u1d63u1d64u1d65u1d66u1d67u1d68u1d69u1d6au1d6bu1d6c" \o
             "u1d6du1d6eu1d6fu1d70u1d71u1d72u1d73u1d74u1d75u1d76u1d77u1d78u1d79u1d7au1d7b" \o
             "u1d7cu1d7du1d7eu1d7fu1d80u1d81u1d82u1d83u1d84u1d85u1d86u1d87u1d88u1d89u1d8a" \o
             "u1d8bu1d8cu1d8du1d8eu1d8fu1d90u1d91u1d92u1d93u1d94u1d95u1d96u1d97u1d98u1d99" \o
             "u1d9au1d9bu1d9cu1d9du1d9eu1d9fu1da0u1da1u1da2u1da3u1da4u1da5u1da6u1da7u1da8" \o
             "u1da9u1daau1dabu1dacu1dadu1daeu1dafu1db0u1db1u1db2u1db3u1db4u1db5u1db6u1db7" \o
             "u1db8u1db9u1dbau1dbbu1dbcu1dbdu1dbeu1dbfu1e01u1e03u1e05u1e07u1e09u1e0bu1e0d" \o
             "u1e0fu1e11u1e13u1e15u1e17u1e19u1e1bu1e1du1e1fu1e21u1e23u1e25u1e27u1e29u1e2b" \o
             "u1e2du1e2fu1e31u1e33u1e35u1e37u1e39u1e3bu1e3du1e3fu1e41u1e43u1e45u1e47u1e49" \o
             "u1e4bu1e4du1e4fu1e51u1e53u1e55u1e57u1e59u1e5bu1e5du1e5fu1e61u1e63u1e65u1e67" \o
             "u1e69u1e6bu1e6du1e6fu1e71u1e73u1e75u1e77u1e79u1e7bu1e7du1e7fu1e81u1e83u1e85" \o
             "u1e87u1e89u1e8bu1e8du1e8fu1e91u1e93u1e95u1e96u1e97u1e98u1e99u1e9au1e9bu1e9c" \o
             "u1e9du1e9fu1ea1u1ea3u1ea5u1ea7u1ea9u1eabu1eadu1eafu1eb1u1eb3u1eb5u1eb7u1eb9" \o
             "u1ebbu1ebdu1ebfu1ec1u1ec3u1ec5u1ec7u1ec9u1ecbu1ecdu1ecfu1ed1u1ed3u1ed5u1ed7" \o
             "u1ed9u1edbu1eddu1edfu1ee1u1ee3u1ee5u1ee7u1ee9u1eebu1eedu1eefu1ef1u1ef3u1ef5" \o
             "u1ef7u1ef9u1efbu1efdu1effu1f00u1f01u1f02u1f03u1f04u1f05u1f06u1f07u1f10u1f11" \o
             "u1f12u1f13u1f14u1f15u1f20u1f21u1f22u1f23u1f24u1f25u1f26u1f27u1f30u1f31u1f32" \o
             "u1f33u1f34u1f35u1f36u1f37u1f40u1f41u1f42u1f43u1f44u1f45u1f50u1f51u1f52u1f53" \o
             "u1f54u1f55u1f56u1f57u1f60u1f61u1f62u1f63u1f64u1f65u1f66u1f67u1f70u1f71u1f72" \o
             "u1f73u1f74u1f75u1f76u1f77u1f78u1f79u1f7au1f7bu1f7cu1f7du1f80u1f81u1f82u1f83" \o
             "u1f84u1f85u1f86u1f87u1f90u1f91u1f92u1f93u1f94u1f95u1f96u1f97u1fa0u1fa1u1fa2" \o
             "u1fa3u1fa4u1fa5u1fa6u1fa7u1fb0u1fb1u1fb2u1fb3u1fb4u1fb6u1fb7u1fbeu1fc2u1fc3" \o
             "u1fc4u1fc6u1fc7u1fd0u1fd1u1fd2u1fd3u1fd6u1fd7u1fe0u1fe1u1fe2u1fe3u1fe4u1fe5" \o
             "u1fe6u1fe7u1ff2u1ff3u1ff4u1ff6u1ff7u2071u207fu2090u2091u2092u2093u2094u2095" \o
             "u2096u2097u2098u2099u209au209bu209cu210au210eu210fu2113u212fu2134u2139u213c" \o
             "u213du2146u2147u2148u2149u214eu2170u2171u2172u2173u2174u2175u2176u2177u2178" \o
             "u2179u217au217bu217cu217du217eu217fu2184u24d0u24d1u24d2u24d3u24d4u24d5u24d6" \o
             "u24d7u24d8u24d9u24dau24dbu24dcu24ddu24deu24dfu24e0u24e1u24e2u24e3u24e4u24e5" \o
             "u24e6u24e7u24e8u24e9u2c30u2c31u2c32u2c33u2c34u2c35u2c36u2c37u2c38u2c39u2c3a" \o
             "u2c3bu2c3cu2c3du2c3eu2c3fu2c40u2c41u2c42u2c43u2c44u2c45u2c46u2c47u2c48u2c49" \o
             "u2c4au2c4bu2c4cu2c4du2c4eu2c4fu2c50u2c51u2c52u2c53u2c54u2c55u2c56u2c57u2c58" \o
             "u2c59u2c5au2c5bu2c5cu2c5du2c5eu2c5fu2c61u2c65u2c66u2c68u2c6au2c6cu2c71u2c73" \o
             "u2c74u2c76u2c77u2c78u2c79u2c7au2c7bu2c7cu2c7du2c81u2c83u2c85u2c87u2c89u2c8b" \o
             "u2c8du2c8fu2c91u2c93u2c95u2c97u2c99u2c9bu2c9du2c9fu2ca1u2ca3u2ca5u2ca7u2ca9" \o
             "u2cabu2cadu2cafu2cb1u2cb3u2cb5u2cb7u2cb9u2cbbu2cbdu2cbfu2cc1u2cc3u2cc5u2cc7" \o
             "u2cc9u2ccbu2ccdu2ccfu2cd1u2cd3u2cd5u2cd7u2cd9u2cdbu2cddu2cdfu2ce1u2ce3u2ce4" \o
             "u2cecu2ceeu2cf3u2d00u2d01u2d02u2d03u2d04u2d05u2d06u2d07u2d08u2d09u2d0au2d0b" \o
             "u2d0cu2d0du2d0eu2d0fu2d10u2d11u2d12u2d13u2d14u2d15u2d16u2d17u2d18u2d19u2d1a" \o
             "u2d1bu2d1cu2d1du2d1eu2d1fu2d20u2d21u2d22u2d23u2d24u2d25u2d27u2d2dua641ua643" \o
             "ua645ua647ua649ua64bua64dua64fua651ua653ua655ua657ua659ua65bua65dua65fua661" \o
             "ua663ua665ua667ua669ua66bua66dua681ua683ua685ua687ua689ua68bua68dua68fua691" \o
             "ua693ua695ua697ua699ua69bua69cua69dua723ua725ua727ua729ua72bua72dua72fua730" \o
             "ua731ua733ua735ua737ua739ua73bua73dua73fua741ua743ua745ua747ua749ua74bua74d" \o
             "ua74fua751ua753ua755ua757ua759ua75bua75dua75fua761ua763ua765ua767ua769ua76b" \o
             "ua76dua76fua770ua771ua772ua773ua774ua775ua776ua777ua778ua77aua77cua77fua781" \o
             "ua783ua785ua787ua78cua78eua791ua793ua794ua795ua797ua799ua79bua79dua79fua7a1" \o
             "ua7a3ua7a5ua7a7ua7a9ua7afua7b5ua7b7ua7b9ua7bbua7bdua7bfua7c1ua7c3ua7c8ua7ca" \o
             "ua7d1ua7d3ua7d5ua7d7ua7d9ua7f6ua7f8ua7f9ua7fauab30uab31uab32uab33uab34uab35" \o
             "uab36uab37uab38uab39uab3auab3buab3cuab3duab3euab3fuab40uab41uab42uab43uab44" \o
             "uab45uab46uab47uab48uab49uab4auab4buab4cuab4duab4euab4fuab50uab51uab52uab53" \o
             "uab54uab55uab56uab57uab58uab59uab5auab5cuab5duab5euab5fuab60uab61uab62uab63" \o
             "uab64uab65uab66uab67uab68uab70uab71uab72uab73uab74uab75uab76uab77uab78uab79" \o
             "uab7auab7buab7cuab7duab7euab7fuab80uab81uab82uab83uab84uab85uab86uab87uab88" \o
             "uab89uab8auab8buab8cuab8duab8euab8fuab90uab91uab92uab93uab94uab95uab96uab97" \o
             "uab98uab99uab9auab9buab9cuab9duab9euab9fuaba0uaba1uaba2uaba3uaba4uaba5uaba6" \o
             "uaba7uaba8uaba9uabaauababuabacuabaduabaeuabafuabb0uabb1uabb2uabb3uabb4uabb5" \o
             "uabb6uabb7uabb8uabb9uabbauabbbuabbcuabbduabbeuabbfufb00ufb01ufb02ufb03ufb04" \o
             "ufb05ufb06ufb13ufb14ufb15ufb16ufb17uff41uff42uff43uff44uff45uff46uff47uff48" \o
             "uff49uff4auff4buff4cuff4duff4euff4fuff50uff51uff52uff53uff54uff55uff56uff57" \o
             "uff58uff59uff5a", 5)
  \cup Chars("u10428u10429u1042au1042bu1042cu1042du1042eu1042fu10430u10431u10432u10433" \o
             "u10434u10435u10436u10437u10438u10439u1043au1043bu1043cu1043du1043eu1043f" \o
             "u10440u10441u10442u10443u10444u10445u10446u10447u10448u10449u1044au1044b" \o
             "u1044cu1044du1044eu1044fu104d8u104d9u104dau104dbu104dcu104ddu104deu104df" \o
             "u104e0u104e1u104e2u104e3u104e4u104e5u104e6u104e7u104e8u104e9u104eau104eb" \o
             "u104ecu104edu104eeu104efu104f0u104f1u104f2u104f3u104f4u104f5u104f6u104f7" \o
             "u104f8u104f9u104fau104fbu10597u10598u10599u1059au1059bu1059cu1059du1059e" \o
             "u1059fu105a0u105a1u105a3u105a4u105a5u105a6u105a7u105a8u105a9u105aau105ab" \o
             "u105acu105adu105aeu105afu105b0u105b1u105b3u105b4u105b5u105b6u105b7u105b8" \o
             "u105b9u105bbu105bcu10780u10783u10784u10785u10787u10788u10789u1078au1078b" \o
             "u1078cu1078du1078eu1078fu10790u10791u10792u10793u10794u10795u10796u10797" \o
             "u10798u10799u1079au1079bu1079cu1079du1079eu1079fu107a0u107a1u107a2u107a3" \o
             "u107a4u107a5u107a6u107a7u107a8u107a9u107aau107abu107acu107adu107aeu107af" \o
             "u107b0u107b2u107b3u107b4u107b5u107b6u107b7u107b8u107b9u107bau10cc0u10cc1" \o
             "u10cc2u10cc3u10cc4u10cc5u10cc6u10cc7u10cc8u10cc9u10ccau10ccbu10cccu10ccd" \o
             "u10cceu10ccfu10cd0u10cd1u10cd2u10cd3u10cd4u10cd5u10cd6u10cd7u10cd8u10cd9" \o
             "u10cdau10cdbu10cdcu10cddu10cdeu10cdfu10ce0u10ce1u10ce2u10ce3u10ce4u10ce5" \o
             "u10ce6u10ce7u10ce8u10ce9u10ceau10cebu10cecu10cedu10ceeu10cefu10cf0u10cf1" \o
             "u10cf2u118c0u118c1u118c2u118c3u118c4u118c5u118c6u118c7u118c8u118c9u118ca" \o
             "u118cbu118ccu118cdu118ceu118cfu118d0u118d1u118d2u118d3u118d4u118d5u118d6" \o
             "u118d7u118d8u118d9u118dau118dbu118dcu118ddu118deu118dfu16e60u16e61u16e62" \o
             "u16e63u16e64u16e65u16e66u16e67u16e68u16e69u16e6au16e6bu16e6cu16e6du16e6e" \o
             "u16e6fu16e70u16e71u16e72u16e73u16e74u16e75u16e76u16e77u16e78u16e79u16e7a" \o
             "u16e7bu16e7cu16e7du16e7eu16e7fu1d41au1d41bu1d41cu1d41du1d41eu1d41fu1d420" \o
             "u1d421u1d422u1d423u1d424u1d425u1d426u1d427u1d428u1d429u1d42au1d42bu1d42c" \o
             "u1d42du1d42eu1d42fu1d430u1d431u1d432u1d433u1d44eu1d44fu1d450u1d451u1d452" \o
             "u1d453u1d454u1d456u1d457u1d458u1d459u1d45au1d45bu1d45cu1d45du1d45eu1d45f" \o
             "u1d460u1d461u1d462u1d463u1d464u1d465u1d466u1d467u1d482u1d483u1d484u1d485" \o
             "u1d486u1d487u1d488u1d489u1d48au1d48bu1d48cu1d48du1d48eu1d48fu1d490u1d491" \o
             "u1d492u1d493u1d494u1d495u1d496u1d497u1d498u1d499u1d49au1d49bu1d4b6u1d4b7" \o
             "u1d4b8u1d4b9u1d4bbu1d4bdu1d4beu1d4bfu1d4c0u1d4c1u1d4c2u1d4c3u1d4c5u1d4c6" \o
             "u1d4c7u1d4c8u1d4c9u1d4cau1d4cbu1d4ccu1d4cdu1d4ceu1d4cfu1d4eau1d4ebu1d4ec" \o
             "u1d4edu1d4eeu1d4efu1d4f0u1d4f1u1d4f2u1d4f3u1d4f4u1d4f5u1d4f6u1d4f7u1d4f8" \o
             "u1d4f9u1d4fau1d4fbu1d4fcu1d4fdu1d4feu1d4ffu1d500u1d501u1d502u1d503u1d51e" \o
             "u1d51fu1d520u1d521u1d522u1d523u1d524u1d525u1d526u1d527u1d528u1d529u1d52a" \o
             "u1d52bu1d52cu1d52du1d52eu1d52fu1d530u1d531u1d532u1d533u1d534u1d535u1d536" \o
             "u1d537u1d552u1d553u1d554u1d555u1d556u1d557u1d558u1d559u1d55au1d55bu1d55c" \o
             "u1d55du1d55eu1d55fu1d560u1d561u1d562u1d563u1d564u1d565u1d566u1d567u1d568" \o
             "u1d569u1d56au1d56bu1d586u1d587u1d588u1d589u1d58au1d58bu1d58cu1d58du1d58e" \o
             "u1d58fu1d590u1d591u1d592u1d593u1d594u1d595u1d596u1d597u1d598u1d599u1d59a" \o
             "u1d59bu1d59cu1d59du1d59eu1d59fu1d5bau1d5bbu1d5bcu1d5bdu1d5beu1d5bfu1d5c0" \o
             "u1d5c1u1d5c2u1d5c3u1d5c4u1d5c5u1d5c6u1d5c7u1d5c8u1d5c9u1d5cau1d5cbu1d5cc" \o
             "u1d5cdu1d5ceu1d5cfu1d5d0u1d5d1u1d5d2u1d5d3u1d5eeu1d5efu1d5f0u1d5f1u1d5f2" \o
             "u1d5f3u1d5f4u1d5f5u1d5f6u1d5f7u1d5f8u1d5f9u1d5fau1d5fbu1d5fcu1d5fdu1d5fe" \o
             "u1d5ffu1d600u1d601u1d602u1d603u1d604u1d605u1d606u1d607u1d622u1d623u1d624" \o
             "u1d625u1d626u1d627u1d628u1d629u1d62au1d62bu1d62cu1d62du1d62eu1d62fu1d630" \o
             "u1d631u1d632u1d633u1d634u1d635u1d636u1d637u1d638u1d639u1d63au1d63bu1d656" \o
             "u1d657u1d658u1d659u1d65au1d65bu1d65cu1d65du1d65eu1d65fu1d660u1d661u1d662" \o
             "u1d663u1d664u1d665u1d666u1d667u1d668u1d669u1d66au1d66bu1d66cu1d66du1d66e" \o
             "u1d66fu1d68au1d68bu1d68cu1d68du1d68eu1d68fu1d690u1d691u1d692u1d693u1d694" \o
             "u1d695u1d696u1d697u1d698u1d699u1d69au1d69bu1d69cu1d69du1d69eu1d69fu1d6a0" \o
             "u1d6a1u1d6a2u1d6a3u1d6a4u1d6a5u1d6c2u1d6c3u1d6c4u1d6c5u1d6c6u1d6c7u1d6c8" \o
             "u1d6c9u1d6cau1d6cbu1d6ccu1d6cdu1d6ceu1d6cfu1d6d0u1d6d1u1d6d2u1d6d3u1d6d4" \o
             "u1d6d5u1d6d6u1d6d7u1d6d8u1d6d9u1d6dau1d6dcu1d6ddu1d6deu1d6dfu1d6e0u1d6e1" \o
             "u1d6fcu1d6fdu1d6feu1d6ffu1d700u1d701u1d702u1d703u1d704u1d705u1d706u1d707" \o
             "u1d708u1d709u1d70au1d70bu1d70cu1d70du1d70eu1d70fu1d710u1d711u1d712u1d713" \o
             "u1d714u1d716u1d717u1d718u1d719u1d71au1d71bu1d736u1d737u1d738u1d739u1d73a" \o
             "u1d73bu1d73cu1d73du1d73eu1d73fu1d740u1d741u1d742u1d743u1d744u1d745u1d746" \o
             "u1d747u1d748u1d749u1d74au1d74bu1d74cu1d74du1d74eu1d750u1d751u1d752u1d753" \o
             "u1d754u1d755u1d770u1d771u1d772u1d773u1d774u1d775u1d776u1d777u1d778u1d779" \o
             "u1d77au1d77bu1d77cu1d77du1d77eu1d77fu1d780u1d781u1d782u1d783u1d784u1d785" \o
             "u1d786u1d787u1d788u1d78au1d78bu1d78cu1d78du1d78eu1d78fu1d7aau1d7abu1d7ac" \o
             "u1d7adu1d7aeu1d7afu1d7b0u1d7b1u1d7b2u1d7b3u1d7b4u1d7b5u1d7b6u1d7b7u1d7b8" \o
             "u1d7b9u1d7bau1d7bbu1d7bcu1d7bdu1d7beu1d7bfu1d7c0u1d7c1u1d7c2u1d7c4u1d7c5" \o
             "u1d7c6u1d7c7u1d7c8u1d7c9u1d7cbu1df00u1df01u1df02u1df03u1df04u1df05u1df06" \o
             "u1df07u1df08u1df09u1df0bu1df0cu1df0du1df0eu1df0fu1df10u1df11u1df12u1df13" \o
             "u1df14u1df15u1df16u1df17u1df18u1df19u1df1au1df1bu1df1cu1df1du1df1eu1e922" \o
             "u1e923u1e924u1e925u1e926u1e927u1e928u1e929u1e92au1e92bu1e92cu1e92du1e92e" \o
             "u1e92fu1e930u1e931u1e932u1e933u1e934u1e935u1e936u1e937u1e938u1e939u1e93a" \o
             "u1e93bu1e93cu1e93du1e93eu1e93fu1e940u1e941u1e942u1e943", 6)

UppercaseChars ==
  Chars("ABCDEFGHIJKLMNOPQRSTUVWXYZ", 1)
  \cup Chars("u00c0u00c1u00c2u00c3u00c4u00c5u00c6u00c7u00c8u00c9u00cau00cbu00ccu00cdu00ce" \o
             "u00cfu00d0u00d1u00d2u00d3u00d4u00d5u00d6u00d8u00d9u00dau00dbu00dcu00ddu00de" \o
             "u0100u0102u0104u0106u0108u010au010cu010eu0110u0112u0114u0116u0118u011au011c" \o
             "u011eu0120u0122u0124u0126u0128u012au012cu012eu0130u0132u0134u0136u0139u013b" \o
             "u013du013fu0141u0143u0145u0147u014au014cu014eu0150u0152u0154u0156u0158u015a" \o
             "u015cu015eu0160u0162u0164u0166u0168u016au016cu016eu0170u0172u0174u0176u0178" \o
             "u0179u017bu017du0181u0182u0184u0186u0187u0189u018au018bu018eu018fu0190u0191" \o
             "u0193u0194u0196u0197u0198u019cu019du019fu01a0u01a2u01a4u01a6u01a7u01a9u01ac" \o
             "u01aeu01afu01b1u01b2u01b3u01b5u01b7u01b8u01bcu01c4u01c7u01cau01cdu01cfu01d1" \o
             "u01d3u01d5u01d7u01d9u01dbu01deu01e0u01e2u01e4u01e6u01e8u01eau01ecu01eeu01f1" \o
             "u01f4u01f6u01f7u01f8u01fau01fcu01feu0200u0202u0204u0206u0208u020au020cu020e" \o
             "u0210u0212u0214u0216u0218u021au021cu021eu0220u0222u0224u0226u0228u022au022c" \o
             "u022eu0230u0232u023au023bu023du023eu0241u0243u0244u0245u0246u0248u024au024c" \o
             "u024eu0370u0372u0376u037fu0386u0388u0389u038au038cu038eu038fu0391u0392u0393" \o
             "u0394u0395u0396u0397u0398u0399u039au039bu039cu039du039eu039fu03a0u03a1u03a3" \o
             "u03a4u03a5u03a6u03a7u03a8u03a9u03aau03abu03cfu03d2u03d3u03d4u03d8u03dau03dc" \o
             "u03deu03e0u03e2u03e4u03e6u03e8u03eau03ecu03eeu03f4u03f7u03f9u03fau03fdu03fe" \o
             "u03ffu0400u0401u0402u0403u0404u0405u0406u0407u0408u0409u040au040bu040cu040d" \o
             "u040eu040fu0410u0411u0412u0413u0414u0415u0416u0417u0418u0419u041au041bu041c" \o
             "u041du041eu041fu0420u0421u0422u0423u0424u0425u0426u0427u0428u0429u042au042b" \o
             "u042cu042du042eu042fu0460u0462u0464u0466u0468u046au046cu046eu0470u0472u0474" \o
             "u0476u0478u047au047cu047eu0480u048au048cu048eu0490u0492u0494u0496u0498u049a" \o
             "u049cu049eu04a0u04a2u04a4u04a6u04a8u04aau04acu04aeu04b0u04b2u04b4u04b6u04b8" \o
             "u04bau04bcu04beu04c0u04c1u04c3u04c5u04c7u04c9u04cbu04cdu04d0u04d2u04d4u04d6" \o
             "u04d8u04dau04dcu04deu04e0u04e2u04e4u04e6u04e8u04eau04ecu04eeu04f0u04f2u04f4" \o
             "u04f6u04f8u04fau04fcu04feu0500u0502u0504u0506u0508u050au050cu050eu0510u0512" \o
             "u0514u0516u0518u051au051cu051eu0520u0522u0524u0526u0528u052au052cu052eu0531" \o
             "u0532u0533u0534u0535u0536u0537u0538u0539u053au053bu053cu053du053eu053fu0540" \o
             "u0541u0542u0543u0544u0545u0546u0547u0548u0549u054au054bu054cu054du054eu054f" \o
             "u0550u0551u0552u0553u0554u0555u0556u10a0u10a1u10a2u10a3u10a4u10a5u10a6u10a7" \o
             "u10a8u10a9u10aau10abu10acu10adu10aeu10afu10b0u10b1u10b2u10b3u10b4u10b5u10b6" \o
             "u10b7u10b8u10b9u10bau10bbu10bcu10bdu10beu10bfu10c0u10c1u10c2u10c3u10c4u10c5" \o
             "u10c7u10cdu13a0u13a1u13a2u13a3u13a4u13a5u13a6u13a7u13a8u13a9u13aau13abu13ac" \o
             "u13adu13aeu13afu13b0u13b1u13b2u13b3u13b4u13b5u13b6u13b7u13b8u13b9u13bau13bb" \o
             "u13bcu13bdu13beu13bfu13c0u13c1u13c2u13c3u13c4u13c5u13c6u13c7u13c8u13c9u13ca" \o
             "u13cbu13ccu13cdu13ceu13cfu13d0u13d1u13d2u13d3u13d4u13d5u13d6u13d7u13d8u13d9" \o
             "u13dau13dbu13dcu13ddu13deu13dfu13e0u13e1u13e2u13e3u13e4u13e5u13e6u13e7u13e8" \o
             "u13e9u13eau13ebu13ecu13edu13eeu13efu13f0u13f1u13f2u13f3u13f4u13f5u1c90u1c91" \o
             "u1c92u1c93u1c94u1c95u1c96u1c97u1c98u1c99u1c9au1c9bu1c9cu1c9du1c9eu1c9fu1ca0" \o
             "u1ca1u1ca2u1ca3u1ca4u1ca5u1ca6u1ca7u1ca8u1ca9u1caau1cabu1cacu1cadu1caeu1caf" \o
             "u1cb0u1cb1u1cb2u1cb3u1cb4u1cb5u1cb6u1cb7u1cb8u1cb9u1cbau1cbdu1cbeu1cbfu1e00" \o
             "u1e02u1e04u1e06u1e08u1e0au1e0cu1e0eu1e10u1e12u1e14u1e16u1e18u1e1au1e1cu1e1e" \o
             "u1e20u1e22u1e24u1e26u1e28u1e2au1e2cu1e2eu1e30u1e32u1e34u1e36u1e38u1e3au1e3c" \o
             "u1e3eu1e40u1e42u1e44u1e46u1e48u1e4au1e4cu1e4eu1e50u1e52u1e54u1e56u1e58u1e5a" \o
             "u1e5cu1e5eu1e60u1e62u1e64u1e66u1e68u1e6au1e6cu1e6eu1e70u1e72u1e74u1e76u1e78" \o
             "u1e7au1e7cu1e7eu1e80u1e82u1e84u1e86u1e88u1e8au1e8cu1e8eu1e90u1e92u1e94u1e9e" \o
             "u1ea0u1ea2u1ea4u1ea6u1ea8u1eaau1eacu1eaeu1eb0u1eb2u1eb4u1eb6u1eb8u1ebau1ebc" \o
             "u1ebeu1ec0u1ec2u1ec4u1ec6u1ec8u1ecau1eccu1eceu1ed0u1ed2u1ed4u1ed6u1ed8u1eda" \o
             "u1edcu1edeu1ee0u1ee2u1ee4u1ee6u1ee8u1eeau1eecu1eeeu1ef0u1ef2u1ef4u1ef6u1ef8" \o
             "u1efau1efcu1efeu1f08u1f09u1f0au1f0bu1f0cu1f0du1f0eu1f0fu1f18u1f19u1f1au1f1b" \o
             "u1f1cu1f1du1f28u1f29u1f2au1f2bu1f2cu1f2du1f2eu1f2fu1f38u1f39u1f3au1f3bu1f3c" \o
             "u1f3du1f3eu1f3fu1f48u1f49u1f4au1f4bu1f4cu1f4du1f59u1f5bu1f5du1f5fu1f68u1f69" \o
             "u1f6au1f6bu1f6cu1f6du1f6eu1f6fu1fb8u1fb9u1fbau1fbbu1fc8u1fc9u1fcau1fcbu1fd8" \o
             "u1fd9u1fdau1fdbu1fe8u1fe9u1feau1febu1fecu1ff8u1ff9u1ffau1ffbu2102u2107u210b" \o
             "u210cu210du2110u2111u2112u2115u2119u211au211bu211cu211du2124u2126u2128u212a" \o
             "u212bu212cu212du2130u2131u2132u2133u213eu213fu2145u2160u2161u2162u2163u2164" \o
             "u2165u2166u2167u2168u2169u216au216bu216cu216du216eu216fu2183u24b6u24b7u24b8" \o
             "u24b9u24bau24bbu24bcu24bdu24beu24bfu24c0u24c1u24c2u24c3u24c4u24c5u24c6u24c7" \o
             "u24c8u24c9u24cau24cbu24ccu24cdu24ceu24cfu2c00u2c01u2c02u2c03u2c04u2c05u2c06" \o
             "u2c07u2c08u2c09u2c0au2c0bu2c0cu2c0du2c0eu2c0fu2c10u2c11u2c12u2c13u2c14u2c15" \o
             "u2c16u2c17u2c18u2c19u2c1au2c1bu2c1cu2c1du2c1eu2c1fu2c20u2c21u2c22u2c23u2c24" \o
             "u2c25u2c26u2c27u2c28u2c29u2c2au2c2bu2c2cu2c2du2c2eu2c2fu2c60u2c62u2c63u2c64" \o
             "u2c67u2c69u2c6bu2c6du2c6eu2c6fu2c70u2c72u2c75u2c7eu2c7fu2c80u2c82u2c84u2c86" \o
             "u2c88u2c8au2c8cu2c8eu2c90u2c92u2c94u2c96u2c98u2c9au2c9cu2c9eu2ca0u2ca2u2ca4" \o
             "u2ca6u2ca8u2caau2cacu2caeu2cb0u2cb2u2cb4u2cb6u2cb8u2cbau2cbcu2cbeu2cc0u2cc2" \o
             "u2cc4u2cc6u2cc8u2ccau2cccu2cceu2cd0u2cd2u2cd4u2cd6u2cd8u2cdau2cdcu2cdeu2ce0" \o
             "u2ce2u2cebu2cedu2cf2ua640ua642ua644ua646ua648ua64aua64cua64eua650ua652ua654" \o
             "ua656ua658ua65aua65cua65eua660ua662ua664ua666ua668ua66aua66cua680ua682ua684" \o
             "ua686ua688ua68aua68cua68eua690ua692ua694ua696ua698ua69aua722ua724ua726ua728" \o
             "ua72aua72cua72eua732ua734ua736ua738ua73aua73cua73eua740ua742ua744ua746ua748" \o
             "ua74aua74cua74eua750ua752ua754ua756ua758ua75aua75cua75eua760ua762ua764ua766" \o
             "ua768ua76aua76cua76eua779ua77bua77dua77eua780ua782ua784ua786ua78bua78dua790" \o
             "ua792ua796ua798ua79aua79cua79eua7a0ua7a2ua7a4ua7a6ua7a8ua7aaua7abua7acua7ad" \o
             "ua7aeua7b0ua7b1ua7b2ua7b3ua7b4ua7b6ua7b8ua7baua7bcua7beua7c0ua7c2ua7c4ua7c5" \o
             "ua7c6ua7c7ua7c9ua7d0ua7d6ua7d8ua7f5uff21uff22uff23uff24uff25uff26uff27uff28" \o
             "uff29uff2auff2buff2cuff2duff2euff2fuff30uff31uff32uff33uff34uff35uff36uff37" \o
             "uff38uff39uff3a", 5)
  \cup Chars("u10400u10401u10402u10403u10404u10405u10406u10407u10408u10409u1040au1040b" \o
             "u1040cu1040du1040eu1040fu10410u10411u10412u10413u10414u10415u10416u10417" \o
             "u10418u10419u1041au1041bu1041cu1041du1041eu1041fu10420u10421u10422u10423" \o
             "u10424u10425u10426u10427u104b0u104b1u104b2u104b3u104b4u104b5u104b6u104b7" \o
             "u104b8u104b9u104bau104bbu104bcu104bdu104beu104bfu104c0u104c1u104c2u104c3" \o
             "u104c4u104c5u104c6u104c7u104c8u104c9u104cau104cbu104ccu104cdu104ceu104cf" \o
             "u104d0u104d1u104d2u104d3u10570u10571u10572u10573u10574u10575u10576u10577" \o
             "u10578u10579u1057au1057cu1057du1057eu1057fu10580u10581u10582u10583u10584" \o
             "u10585u10586u10587u10588u10589u1058au1058cu1058du1058eu1058fu10590u10591" \o
             "u10592u10594u10595u10c80u10c81u10c82u10c83u10c84u10c85u10c86u10c87u10c88" \o
             "u10c89u10c8au10c8bu10c8cu10c8du10c8eu10c8fu10c90u10c91u10c92u10c93u10c94" \o
             "u10c95u10c96u10c97u10c98u10c99u10c9au10c9bu10c9cu10c9du10c9eu10c9fu10ca0" \o
             "u10ca1u10ca2u10ca3u10ca4u10ca5u10ca6u10ca7u10ca8u10ca9u10caau10cabu10cac" \o
             "u10cadu10caeu10cafu10cb0u10cb1u10cb2u118a0u118a1u118a2u118a3u118a4u118a5" \o
             "u118a6u118a7u118a8u118a9u118aau118abu118acu118adu118aeu118afu118b0u118b1" \o
             "u118b2u118b3u118b4u118b5u118b6u118b7u118b8u118b9u118bau118bbu118bcu118bd" \o
             "u118beu118bfu16e40u16e41u16e42u16e43u16e44u16e45u16e46u16e47u16e48u16e49" \o
             "u16e4au16e4bu16e4cu16e4du16e4eu16e4fu16e50u16e51u16e52u16e53u16e54u16e55" \o
             "u16e56u16e57u16e58u16e59u16e5au16e5bu16e5cu16e5du16e5eu16e5fu1d400u1d401" \o
             "u1d402u1d403u1d404u1d405u1d406u1d407u1d408u1d409u1d40au1d40bu1d40cu1d40d" \o
             "u1d40eu1d40fu1d410u1d411u1d412u1d413u1d414u1d415u1d416u1d417u1d418u1d419" \o
             "u1d434u1d435u1d436u1d437u1d438u1d439u1d43au1d43bu1d43cu1d43du1d43eu1d43f" \o
             "u1d440u1d441u1d442u1d443u1d444u1d445u1d446u1d447u1d448u1d449u1d44au1d44b" \o
             "u1d44cu1d44du1d468u1d469u1d46au1d46bu1d46cu1d46du1d46eu1d46fu1d470u1d471" \o
             "u1d472u1d473u1d474u1d475u1d476u1d477u1d478u1d479u1d47au1d47bu1d47cu1d47d" \o
             "u1d47eu1d47fu1d480u1d481u1d49cu1d49eu1d49fu1d4a2u1d4a5u1d4a6u1d4a9u1d4aa" \o
             "u1d4abu1d4acu1d4aeu1d4afu1d4b0u1d4b1u1d4b2u1d4b3u1d4b4u1d4b5u1d4d0u1d4d1" \o
             "u1d4d2u1d4d3u1d4d4u1d4d5u1d4d6u1d4d7u1d4d8u1d4d9u1d4dau1d4dbu1d4dcu1d4dd" \o
             "u1d4deu1d4dfu1d4e0u1d4e1u1d4e2u1d4e3u1d4e4u1d4e5u1d4e6u1d4e7u1d4e8u1d4e9" \o
             "u1d504u1d505u1d507u1d508u1d509u1d50au1d50du1d50eu1d50fu1d510u1d511u1d512" \o
             "u1d513u1d514u1d516u1d517u1d518u1d519u1d51au1d51bu1d51cu1d538u1d539u1d53b" \o
             "u1d53cu1d53du1d53eu1d540u1d541u1d542u1d543u1d544u1d546u1d54au1d54bu1d54c" \o
             "u1d54du1d54eu1d54fu1d550u1d56cu1d56du1d56eu1d56fu1d570u1d571u1d572u1d573" \o
             "u1d574u1d575u1d576u1d577u1d578u1d579u1d57au1d57bu1d57cu1d57du1d57eu1d57f" \o
             "u1d580u1d581u1d582u1d583u1d584u1d585u1d5a0u1d5a1u1d5a2u1d5a3u1d5a4u1d5a5" \o
             "u1d5a6u1d5a7u1d5a8u1d5a9u1d5aau1d5abu1d5acu1d5adu1d5aeu1d5afu1d5b0u1d5b1" \o
             "u1d5b2u1d5b3u1d5b4u1d5b5u1d5b6u1d5b7u1d5b8u1d5b9u1d5d4u1d5d5u1d5d6u1d5d7" \o
             "u1d5d8u1d5d9u1d5dau1d5dbu1d5dcu1d5ddu1d5deu1d5dfu1d5e0u1d5e1u1d5e2u1d5e3" \o
             "u1d5e4u1d5e5u1d5e6u1d5e7u1d5e8u1d5e9u1d5eau1d5ebu1d5ecu1d5edu1d608u1d609" \o
             "u1d60au1d60bu1d60cu1d60du1d60eu1d60fu1d610u1d611u1d612u1d613u1d614u1d615" \o
             "u1d616u1d617u1d618u1d619u1d61au1d61bu1d61cu1d61du1d61eu1d61fu1d620u1d621" \o
             "u1d63cu1d63du1d63eu1d63fu1d640u1d641u1d642u1d643u1d644u1d645u1d646u1d647" \o
             "u1d648u1d649u1d64au1d64bu1d64cu1d64du1d64eu1d64fu1d650u1d651u1d652u1d653" \o
             "u1d654u1d655u1d670u1d671u1d672u1d673u1d674u1d675u1d676u1d677u1d678u1d679" \o
             "u1d67au1d67bu1d67cu1d67du1d67eu1d67fu1d680u1d681u1d682u1d683u1d684u1d685" \o
             "u1d686u1d687u1d688u1d689u1d6a8u1d6a9u1d6aau1d6abu1d6acu1d6adu1d6aeu1d6af" \o
             "u1d6b0u1d6b1u1d6b2u1d6b3u1d6b4u1d6b5u1d6b6u1d6b7u1d6b8u1d6b9u1d6bau1d6bb" \o
             "u1d6bcu1d6bdu1d6beu1d6bfu1d6c0u1d6e2u1d6e3u1d6e4u1d6e5u1d6e6u1d6e7u1d6e8" \o
             "u1d6e9u1d6eau1d6ebu1d6ecu1d6edu1d6eeu1d6efu1d6f0u1d6f1u1d6f2u1d6f3u1d6f4" \o
             "u1d6f5u1d6f6u1d6f7u1d6f8u1d6f9u1d6fau1d71cu1d71du1d71eu1d71fu1d720u1d721" \o
             "u1d722u1d723u1d724u1d725u1d726u1d727u1d728u1d729u1d72au1d72bu1d72cu1d72d" \o
             "u1d72eu1d72fu1d730u1d731u1d732u1d733u1d734u1d756u1d757u1d758u1d759u1d75a" \o
             "u1d75bu1d75cu1d75du1d75eu1d75fu1d760u1d761u1d762u1d763u1d764u1d765u1d766" \o
             "u1d767u1d768u1d769u1d76au1d76bu1d76cu1d76du1d76eu1d790u1d791u1d792u1d793" \o
             "u1d794u1d795u1d796u1d797u1d798u1d799u1d79au1d79bu1d79cu1d79du1d79eu1d79f" \o
             "u1d7a0u1d7a1u1d7a2u1d7a3u1d7a4u1d7a5u1d7a6u1d7a7u1d7a8u1d7cau1e900u1e901" \o
             "u1e902u1e903u1e904u1e905u1e906u1e907u1e908u1e909u1e90au1e90bu1e90cu1e90d" \o
             "u1e90eu1e90fu1e910u1e911u1e912u1e913u1e914u1e915u1e916u1e917u1e918u1e919" \o
             "u1e91au1e91bu1e91cu1e91du1e91eu1e91fu1e920u1e921u1f130u1f131u1f132u1f133" \o
             "u1f134u1f135u1f136u1f137u1f138u1f139u1f13au1f13bu1f13cu1f13du1f13eu1f13f" \o
             "u1f140u1f141u1f142u1f143u1f144u1f145u1f146u1f147u1f148u1f149u1f150u1f151" \o
             "u1f152u1f153u1f154u1f155u1f156u1f157u1f158u1f159u1f15au1f15bu1f15cu1f15d" \o
             "u1f15eu1f15fu1f160u1f161u1f162u1f163u1f164u1f165u1f166u1f167u1f168u1f169" \o
             "u1f170u1f171u1f172u1f173u1f174u1f175u1f176u1f177u1f178u1f179u1f17au1f17b" \o
             "u1f17cu1f17du1f17eu1f17fu1f180u1f181u1f182u1f183u1f184u1f185u1f186u1f187" \o
             "u1f188u1f189", 6)

TitlecaseChars ==
  Chars("u01c5u01c8u01cbu01f2u1f88u1f89u1f8au1f8bu1f8cu1f8du1f8eu1f8fu1f98u1f99u1f9a" \o
        "u1f9bu1f9cu1f9du1f9eu1f9fu1fa8u1fa9u1faau1fabu1facu1fadu1faeu1fafu1fbcu1fcc" \o
        "u1ffc", 5)

\* the characters the final-sigma rule of str.lower() skips
CaseIgnorableChars ==
  Chars("'.:^", 1)
  \cup Chars("u0060u00a8u00adu00afu00b4u00b7u00b8u02b0u02b1u02b2u02b3u02b4u02b5u02b6u02b7" \o
             "u02b8u02b9u02bau02bbu02bcu02bdu02beu02bfu02c0u02c1u02c2u02c3u02c4u02c5u02c6" \o
             "u02c7u02c8u02c9u02cau02cbu02ccu02cdu02ceu02cfu02d0u02d1u02d2u02d3u02d4u02d5" \o
             "u02d6u02d7u02d8u02d9u02dau02dbu02dcu02ddu02deu02dfu02e0u02e1u02e2u02e3u02e4" \o
             "u02e5u02e6u02e7u02e8u02e9u02eau02ebu02ecu02edu02eeu02efu02f0u02f1u02f2u02f3" \o
             "u02f4u02f5u02f6u02f7u02f8u02f9u02fau02fbu02fcu02fdu02feu02ffu0300u0301u0302" \o
             "u0303u0304u0305u0306u0307u0308u0309u030au030bu030cu030du030eu030fu0310u0311" \o
             "u0312u0313u0314u0315u0316u0317u0318u0319u031au031bu031cu031du031eu031fu0320" \o
             "u0321u0322u0323u0324u0325u0326u0327u0328u0329u032au032bu032cu032du032eu032f" \o
             "u0330u0331u0332u0333u0334u0335u0336u0337u0338u0339u033au033bu033cu033du033e" \o
             "u033fu0340u0341u0342u0343u0344u0345u0346u0347u0348u0349u034au034bu034cu034d" \o
             "u034eu034fu0350u0351u0352u0353u0354u0355u0356u0357u0358u0359u035au035bu035c" \o
             "u035du035eu035fu0360u0361u0362u0363u0364u0365u0366u0367u0368u0369u036au036b" \o
             "u036cu036du036eu036fu0374u0375u037au0384u0385u0387u0483u0484u0485u0486u0487" \o
             "u0488u0489u0559u055fu0591u0592u0593u0594u0595u0596u0597u0598u0599u059au059b" \o
             "u059cu059du059eu059fu05a0u05a1u05a2u05a3u05a4u05a5u05a6u05a7u05a8u05a9u05aa" \o
             "u05abu05acu05adu05aeu05afu05b0u05b1u05b2u05b3u05b4u05b5u05b6u05b7u05b8u05b9" \o
             "u05bau05bbu05bcu05bdu05bfu05c1u05c2u05c4u05c5u05c7u05f4u0600u0601u0602u0603" \o
             "u0604u0605u0610u0611u0612u0613u0614u0615u0616u0617u0618u0619u061au061cu0640" \o
             "u064bu064cu064du064eu064fu0650u0651u0652u0653u0654u0655u0656u0657u0658u0659" \o
             "u065au065bu065cu065du065eu065fu0670u06d6u06d7u06d8u06d9u06dau06dbu06dcu06dd" \o
             "u06dfu06e0u06e1u06e2u06e3u06e4u06e5u06e6u06e7u06e8u06eau06ebu06ecu06edu070f" \o
             "u0711u0730u0731u0732u0733u0734u0735u0736u0737u0738u0739u073au073bu073cu073d" \o
             "u073eu073fu0740u0741u0742u0743u0744u0745u0746u0747u0748u0749u074au07a6u07a7" \o
             "u07a8u07a9u07aau07abu07acu07adu07aeu07afu07b0u07ebu07ecu07edu07eeu07efu07f0" \o
             "u07f1u07f2u07f3u07f4u07f5u07fau07fdu0816u0817u0818u0819u081au081bu081cu081d" \o
             "u081eu081fu0820u0821u0822u0823u0824u0825u0826u0827u0828u0829u082au082bu082c" \o
             "u082du0859u085au085bu0888u0890u0891u0898u0899u089au089bu089cu089du089eu089f" \o
             "u08c9u08cau08cbu08ccu08cdu08ceu08cfu08d0u08d1u08d2u08d3u08d4u08d5u08d6u08d7" \o
             "u08d8u08d9u08dau08dbu08dcu08ddu08deu08dfu08e0u08e1u08e2u08e3u08e4u08e5u08e6" \o
             "u08e7u08e8u08e9u08eau08ebu08ecu08edu08eeu08efu08f0u08f1u08f2u08f3u08f4u08f5" \o
             "u08f6u08f7u08f8u08f9u08fau08fbu08fcu08fdu08feu08ffu0900u0901u0902u093au093c" \o
             "u0941u0942u0943u0944u0945u0946u0947u0948u094du0951u0952u0953u0954u0955u0956" \o
             "u0957u0962u0963u0971u0981u09bcu09c1u09c2u09c3u09c4u09cdu09e2u09e3u09feu0a01" \o
             "u0a02u0a3cu0a41u0a42u0a47u0a48u0a4bu0a4cu0a4du0a51u0a70u0a71u0a75u0a81u0a82" \o
             "u0abcu0ac1u0ac2u0ac3u0ac4u0ac5u0ac7u0ac8u0acdu0ae2u0ae3u0afau0afbu0afcu0afd" \o
             "u0afeu0affu0b01u0b3cu0b3fu0b41u0b42u0b43u0b44u0b4du0b55u0b56u0b62u0b63u0b82" \o
             "u0bc0u0bcdu0c00u0c04u0c3cu0c3eu0c3fu0c40u0c46u0c47u0c48u0c4au0c4bu0c4cu0c4d" \o
             "u0c55u0c56u0c62u0c63u0c81u0cbcu0cbfu0cc6u0cccu0ccdu0ce2u0ce3u0d00u0d01u0d3b" \o
             "u0d3cu0d41u0d42u0d43u0d44u0d4du0d62u0d63u0d81u0dcau0dd2u0dd3u0dd4u0dd6u0e31" \o
             "u0e34u0e35u0e36u0e37u0e38u0e39u0e3au0e46u0e47u0e48u0e49u0e4au0e4bu0e4cu0e4d" \o
             "u0e4eu0eb1u0eb4u0eb5u0eb6u0eb7u0eb8u0eb9u0ebau0ebbu0ebcu0ec6u0ec8u0ec9u0eca" \o
             "u0ecbu0eccu0ecdu0f18u0f19u0f35u0f37u0f39u0f71u0f72u0f73u0f74u0f75u0f76u0f77" \o
             "u0f78u0f79u0f7au0f7bu0f7cu0f7du0f7eu0f80u0f81u0f82u0f83u0f84u0f86u0f87u0f8d" \o
             "u0f8eu0f8fu0f90u0f91u0f92u0f93u0f94u0f95u0f96u0f97u0f99u0f9au0f9bu0f9cu0f9d" \o
             "u0f9eu0f9fu0fa0u0fa1u0fa2u0fa3u0fa4u0fa5u0fa6u0fa7u0fa8u0fa9u0faau0fabu0fac" \o
             "u0fadu0faeu0fafu0fb0u0fb1u0fb2u0fb3u0fb4u0fb5u0fb6u0fb7u0fb8u0fb9u0fbau0fbb" \o
             "u0fbcu0fc6u102du102eu102fu1030u1032u1033u1034u1035u1036u1037u1039u103au103d" \o
             "u103eu1058u1059u105eu105fu1060u1071u1072u1073u1074u1082u1085u1086u108du109d" \o
             "u10fcu135du135eu135fu1712u1713u1714u1732u1733u1752u1753u1772u1773u17b4u17b5" \o
             "u17b7u17b8u17b9u17bau17bbu17bcu17bdu17c6u17c9u17cau17cbu17ccu17cdu17ceu17cf" \o
             "u17d0u17d1u17d2u17d3u17d7u17ddu180bu180cu180du180eu180fu1843u1885u1886u18a9" \o
             "u1920u1921u1922u1927u1928u1932u1939u193au193bu1a17u1a18u1a1bu1a56u1a58u1a59" \o
             "u1a5au1a5bu1a5cu1a5du1a5eu1a60u1a62u1a65u1a66u1a67u1a68u1a69u1a6au1a6bu1a6c" \o
             "u1a73u1a74u1a75u1a76u1a77u1a78u1a79u1a7au1a7bu1a7cu1a7fu1aa7u1ab0u1ab1u1ab2" \o
             "u1ab3u1ab4u1ab5u1ab6u1ab7u1ab8u1ab9u1abau1abbu1abcu1abdu1abeu1abfu1ac0u1ac1" \o
             "u1ac2u1ac3u1ac4u1ac5u1ac6u1ac7u1ac8u1ac9u1acau1acbu1accu1acdu1aceu1b00u1b01" \o
             "u1b02u1b03u1b34u1b36u1b37u1b38u1b39u1b3au1b3cu1b42u1b6bu1b6cu1b6du1b6eu1b6f" \o
             "u1b70u1b71u1b72u1b73u1b80u1b81u1ba2u1ba3u1ba4u1ba5u1ba8u1ba9u1babu1bacu1bad" \o
             "u1be6u1be8u1be9u1bedu1befu1bf0u1bf1u1c2cu1c2du1c2eu1c2fu1c30u1c31u1c32u1c33" \o
             "u1c36u1c37u1c78u1c79u1c7au1c7bu1c7cu1c7du1cd0u1cd1u1cd2u1cd4u1cd5u1cd6u1cd7" \o
             "u1cd8u1cd9u1cdau1cdbu1cdcu1cddu1cdeu1cdfu1ce0u1ce2u1ce3u1ce4u1ce5u1ce6u1ce7" \o
             "u1ce8u1cedu1cf4u1cf8u1cf9u1d2cu1d2du1d2eu1d2fu1d30u1d31u1d32u1d33u1d34u1d35" \o
             "u1d36u1d37u1d38u1d39u1d3au1d3bu1d3cu1d3du1d3eu1d3fu1d40u1d41u1d42u1d43u1d44" \o
             "u1d45u1d46u1d47u1d48u1d49u1d4au1d4bu1d4cu1d4du1d4eu1d4fu1d50u1d51u1d52u1d53" \o
             "u1d54u1d55u1d56u1d57u1d58u1d59u1d5au1d5bu1d5cu1d5du1d5eu1d5fu1d60u1d61u1d62" \o
             "u1d63u1d64u1d65u1d66u1d67u1d68u1d69u1d6au1d78u1d9bu1d9cu1d9du1d9eu1d9fu1da0" \o
             "u1da1u1da2u1da3u1da4u1da5u1da6u1da7u1da8u1da9u1daau1dabu1dacu1dadu1daeu1daf" \o
             "u1db0u1db1u1db2u1db3u1db4u1db5u1db6u1db7u1db8u1db9u1dbau1dbbu1dbcu1dbdu1dbe" \o
             "u1dbfu1dc0u1dc1u1dc2u1dc3u1dc4u1dc5u1dc6u1dc7u1dc8u1dc9u1dcau1dcbu1dccu1dcd" \o
             "u1dceu1dcfu1dd0u1dd1u1dd2u1dd3u1dd4u1dd5u1dd6u1dd7u1dd8u1dd9u1ddau1ddbu1ddc" \o
             "u1dddu1ddeu1ddfu1de0u1de1u1de2u1de3u1de4u1de5u1de6u1de7u1de8u1de9u1deau1deb" \o
             "u1decu1dedu1deeu1defu1df0u1df1u1df2u1df3u1df4u1df5u1df6u1df7u1df8u1df9u1dfa" \o
             "u1dfbu1dfcu1dfdu1dfeu1dffu1fbdu1fbfu1fc0u1fc1u1fcdu1fceu1fcfu1fddu1fdeu1fdf" \o
             "u1fedu1feeu1fefu1ffdu1ffeu200bu200cu200du200eu200fu2018u2019u2024u2027u202a" \o
             "u202bu202cu202du202eu2060u2061u2062u2063u2064u2066u2067u2068u2069u206au206b" \o
             "u206cu206du206eu206fu2071u207fu2090u2091u2092u2093u2094u2095u2096u2097u2098" \o
             "u2099u209au209bu209cu20d0u20d1u20d2u20d3u20d4u20d5u20d6u20d7u20d8u20d9u20da" \o
             "u20dbu20dcu20ddu20deu20dfu20e0u20e1u20e2u20e3u20e4u20e5u20e6u20e7u20e8u20e9" \o
             "u20eau20ebu20ecu20edu20eeu20efu20f0u2c7cu2c7du2cefu2cf0u2cf1u2d6fu2d7fu2de0" \o
             "u2de1u2de2u2de3u2de4u2de5u2de6u2de7u2de8u2de9u2deau2debu2decu2dedu2deeu2def" \o
             "u2df0u2df1u2df2u2df3u2df4u2df5u2df6u2df7u2df8u2df9u2dfau2dfbu2dfcu2dfdu2dfe" \o
             "u2dffu2e2fu3005u302au302bu302cu302du3031u3032u3033u3034u3035u303bu3099u309a" \o
             "u309bu309cu309du309eu30fcu30fdu30feua015ua4f8ua4f9ua4faua4fbua4fcua4fdua60c" \o
             "ua66fua670ua671ua672ua674ua675ua676ua677ua678ua679ua67aua67bua67cua67dua67f" \o
             "ua69cua69dua69eua69fua6f0ua6f1ua700ua701ua702ua703ua704ua705ua706ua707ua708" \o
             "ua709ua70aua70bua70cua70dua70eua70fua710ua711ua712ua713ua714ua715ua716ua717" \o
             "ua718ua719ua71aua71bua71cua71dua71eua71fua720ua721ua770ua788ua789ua78aua7f2" \o
             "ua7f3ua7f4ua7f8ua7f9ua802ua806ua80bua825ua826ua82cua8c4ua8c5ua8e0ua8e1ua8e2" \o
             "ua8e3ua8e4ua8e5ua8e6ua8e7ua8e8ua8e9ua8eaua8ebua8ecua8edua8eeua8efua8f0ua8f1" \o
             "ua8ffua926ua927ua928ua929ua92aua92bua92cua92dua947ua948ua949ua94aua94bua94c" \o
             "ua94dua94eua94fua950ua951ua980ua981ua982ua9b3ua9b6ua9b7ua9b8ua9b9ua9bcua9bd" \o
             "ua9cfua9e5ua9e6uaa29uaa2auaa2buaa2cuaa2duaa2euaa31uaa32uaa35uaa36uaa43uaa4c" \o
             "uaa70uaa7cuaab0uaab2uaab3uaab4uaab7uaab8uaabeuaabfuaac1uaadduaaecuaaeduaaf3" \o
             "uaaf4uaaf6uab5buab5cuab5duab5euab5fuab69uab6auab6buabe5uabe8uabedufb1eufbb2" \o
             "ufbb3ufbb4ufbb5ufbb6ufbb7ufbb8ufbb9ufbbaufbbbufbbcufbbdufbbeufbbfufbc0ufbc1" \o
             "ufbc2ufe00ufe01ufe02ufe03ufe04ufe05ufe06ufe07ufe08ufe09ufe0aufe0bufe0cufe0d" \o
             "ufe0eufe0fufe13ufe20ufe21ufe22ufe23ufe24ufe25ufe26ufe27ufe28ufe29ufe2aufe2b" \o
             "ufe2cufe2dufe2eufe2fufe52ufe55ufeffuff07uff0euff1auff3euff40uff70uff9euff9f" \o
             "uffe3ufff9ufffaufffb", 5)
  \cup Chars("u101fdu102e0u10376u10377u10378u10379u1037au10780u10781u10782u10783u10784" \o
             "u10785u10787u10788u10789u1078au1078bu1078cu1078du1078eu1078fu10790u10791" \o
             "u10792u10793u10794u10795u10796u10797u10798u10799u1079au1079bu1079cu1079d" \o
             "u1079eu1079fu107a0u107a1u107a2u107a3u107a4u107a5u107a6u107a7u107a8u107a9" \o
             "u107aau107abu107acu107adu107aeu107afu107b0u107b2u107b3u107b4u107b5u107b6" \o
             "u107b7u107b8u107b9u107bau10a01u10a02u10a03u10a05u10a06u10a0cu10a0du10a0e" \o
             "u10a0fu10a38u10a39u10a3au10a3fu10ae5u10ae6u10d24u10d25u10d26u10d27u10eab" \o
             "u10eacu10f46u10f47u10f48u10f49u10f4au10f4bu10f4cu10f4du10f4eu10f4fu10f50" \o
             "u10f82u10f83u10f84u10f85u11001u11038u11039u1103au1103bu1103cu1103du1103e" \o
             "u1103fu11040u11041u11042u11043u11044u11045u11046u11070u11073u11074u1107f" \o
             "u11080u11081u110b3u110b4u110b5u110b6u110b9u110bau110bdu110c2u110cdu11100" \o
             "u11101u11102u11127u11128u11129u1112au1112bu1112du1112eu1112fu11130u11131" \o
             "u11132u11133u11134u11173u11180u11181u111b6u111b7u111b8u111b9u111bau111bb" \o
             "u111bcu111bdu111beu111c9u111cau111cbu111ccu111cfu1122fu11230u11231u11234" \o
             "u11236u11237u1123eu112dfu112e3u112e4u112e5u112e6u112e7u112e8u112e9u112ea" \o
             "u11300u11301u1133bu1133cu11340u11366u11367u11368u11369u1136au1136bu1136c" \o
             "u11370u11371u11372u11373u11374u11438u11439u1143au1143bu1143cu1143du1143e" \o
             "u1143fu11442u11443u11444u11446u1145eu114b3u114b4u114b5u114b6u114b7u114b8" \o
             "u114bau114bfu114c0u114c2u114c3u115b2u115b3u115b4u115b5u115bcu115bdu115bf" \o
             "u115c0u115dcu115ddu11633u11634u11635u11636u11637u11638u11639u1163au1163d" \o
             "u1163fu11640u116abu116adu116b0u116b1u116b2u116b3u116b4u116b5u116b7u1171d" \o
             "u1171eu1171fu11722u11723u11724u11725u11727u11728u11729u1172au1172bu1182f" \o
             "u11830u11831u11832u11833u11834u11835u11836u11837u11839u1183au1193bu1193c" \o
             "u1193eu11943u119d4u119d5u119d6u119d7u119dau119dbu119e0u11a01u11a02u11a03" \o
             "u11a04u11a05u11a06u11a07u11a08u11a09u11a0au11a33u11a34u11a35u11a36u11a37" \o
             "u11a38u11a3bu11a3cu11a3du11a3eu11a47u11a51u11a52u11a53u11a54u11a55u11a56" \o
             "u11a59u11a5au11a5bu11a8au11a8bu11a8cu11a8du11a8eu11a8fu11a90u11a91u11a92" \o
             "u11a93u11a94u11a95u11a96u11a98u11a99u11c30u11c31u11c32u11c33u11c34u11c35" \o
             "u11c36u11c38u11c39u11c3au11c3bu11c3cu11c3du11c3fu11c92u11c93u11c94u11c95" \o
             "u11c96u11c97u11c98u11c99u11c9au11c9bu11c9cu11c9du11c9eu11c9fu11ca0u11ca1" \o
             "u11ca2u11ca3u11ca4u11ca5u11ca6u11ca7u11caau11cabu11cacu11cadu11caeu11caf" \o
             "u11cb0u11cb2u11cb3u11cb5u11cb6u11d31u11d32u11d33u11d34u11d35u11d36u11d3a" \o
             "u11d3cu11d3du11d3fu11d40u11d41u11d42u11d43u11d44u11d45u11d47u11d90u11d91" \o
             "u11d95u11d97u11ef3u11ef4u13430u13431u13432u13433u13434u13435u13436u13437" \o
             "u13438u16af0u16af1u16af2u16af3u16af4u16b30u16b31u16b32u16b33u16b34u16b35" \o
             "u16b36u16b40u16b41u16b42u16b43u16f4fu16f8fu16f90u16f91u16f92u16f93u16f94" \o
             "u16f95u16f96u16f97u16f98u16f99u16f9au16f9bu16f9cu16f9du16f9eu16f9fu16fe0" \o
             "u16fe1u16fe3u16fe4u1aff0u1aff1u1aff2u1aff3u1aff5u1aff6u1aff7u1aff8u1aff9" \o
             "u1affau1affbu1affdu1affeu1bc9du1bc9eu1bca0u1bca1u1bca2u1bca3u1cf00u1cf01" \o
             "u1cf02u1cf03u1cf04u1cf05u1cf06u1cf07u1cf08u1cf09u1cf0au1cf0bu1cf0cu1cf0d" \o
             "u1cf0eu1cf0fu1cf10u1cf11u1cf12u1cf13u1cf14u1cf15u1cf16u1cf17u1cf18u1cf19" \o
             "u1cf1au1cf1bu1cf1cu1cf1du1cf1eu1cf1fu1cf20u1cf21u1cf22u1cf23u1cf24u1cf25" \o
             "u1cf26u1cf27u1cf28u1cf29u1cf2au1cf2bu1cf2cu1cf2du1cf30u1cf31u1cf32u1cf33" \o
             "u1cf34u1cf35u1cf36u1cf37u1cf38u1cf39u1cf3au1cf3bu1cf3cu1cf3du1cf3eu1cf3f" \o
             "u1cf40u1cf41u1cf42u1cf43u1cf44u1cf45u1cf46u1d167u1d168u1d169u1d173u1d174" \o
             "u1d175u1d176u1d177u1d178u1d179u1d17au1d17bu1d17cu1d17du1d17eu1d17fu1d180" \o
             "u1d181u1d182u1d185u1d186u1d187u1d188u1d189u1d18au1d18bu1d1aau1d1abu1d1ac" \o
             "u1d1adu1d242u1d243u1d244u1da00u1da01u1da02u1da03u1da04u1da05u1da06u1da07" \o
             "u1da08u1da09u1da0au1da0bu1da0cu1da0du1da0eu1da0fu1da10u1da11u1da12u1da13" \o
             "u1da14u1da15u1da16u1da17u1da18u1da19u1da1au1da1bu1da1cu1da1du1da1eu1da1f" \o
             "u1da20u1da21u1da22u1da23u1da24u1da25u1da26u1da27u1da28u1da29u1da2au1da2b" \o
             "u1da2cu1da2du1da2eu1da2fu1da30u1da31u1da32u1da33u1da34u1da35u1da36u1da3b" \o
             "u1da3cu1da3du1da3eu1da3fu1da40u1da41u1da42u1da43u1da44u1da45u1da46u1da47" \o
             "u1da48u1da49u1da4au1da4bu1da4cu1da4du1da4eu1da4fu1da50u1da51u1da52u1da53" \o
             "u1da54u1da55u1da56u1da57u1da58u1da59u1da5au1da5bu1da5cu1da5du1da5eu1da5f" \o
             "u1da60u1da61u1da62u1da63u1da64u1da65u1da66u1da67u1da68u1da69u1da6au1da6b" \o
             "u1da6cu1da75u1da84u1da9bu1da9cu1da9du1da9eu1da9fu1daa1u1daa2u1daa3u1daa4" \o
             "u1daa5u1daa6u1daa7u1daa8u1daa9u1daaau1daabu1daacu1daadu1daaeu1daafu1e000" \o
             "u1e001u1e002u1e003u1e004u1e005u1e006u1e008u1e009u1e00au1e00bu1e00cu1e00d" \o
             "u1e00eu1e00fu1e010u1e011u1e012u1e013u1e014u1e015u1e016u1e017u1e018u1e01b" \o
             "u1e01cu1e01du1e01eu1e01fu1e020u1e021u1e023u1e024u1e026u1e027u1e028u1e029" \o
             "u1e02au1e130u1e131u1e132u1e133u1e134u1e135u1e136u1e137u1e138u1e139u1e13a" \o
             "u1e13bu1e13cu1e13du1e2aeu1e2ecu1e2edu1e2eeu1e2efu1e8d0u1e8d1u1e8d2u1e8d3" \o
             "u1e8d4u1e8d5u1e8d6u1e944u1e945u1e946u1e947u1e948u1e949u1e94au1e94bu1f3fb" \o
             "u1f3fcu1f3fdu1f3feu1f3ffue0001ue0020ue0021ue0022ue0023ue0024ue0025ue0026" \o
             "ue0027ue0028ue0029ue002aue002bue002cue002due002eue002fue0030ue0031ue0032" \o
             "ue0033ue0034ue0035ue0036ue0037ue0038ue0039ue003aue003bue003cue003due003e" \o
             "ue003fue0040ue0041ue0042ue0043ue0044ue0045ue0046ue0047ue0048ue0049ue004a" \o
             "ue004bue004cue004due004eue004fue0050ue0051ue0052ue0053ue0054ue0055ue0056" \o
             "ue0057ue0058ue0059ue005aue005bue005cue005due005eue005fue0060ue0061ue0062" \o
             "ue0063ue0064ue0065ue0066ue0067ue0068ue0069ue006aue006bue006cue006due006e" \o
             "ue006fue0070ue0071ue0072ue0073ue0074ue0075ue0076ue0077ue0078ue0079ue007a" \o
             "ue007bue007cue007due007eue007fue0100ue0101ue0102ue0103ue0104ue0105ue0106" \o
             "ue0107ue0108ue0109ue010aue010bue010cue010due010eue010fue0110ue0111ue0112" \o
             "ue0113ue0114ue0115ue0116ue0117ue0118ue0119ue011aue011bue011cue011due011e" \o
             "ue011fue0120ue0121ue0122ue0123ue0124ue0125ue0126ue0127ue0128ue0129ue012a" \o
             "ue012bue012cue012due012eue012fue0130ue0131ue0132ue0133ue0134ue0135ue0136" \o
             "ue0137ue0138ue0139ue013aue013bue013cue013due013eue013fue0140ue0141ue0142" \o
             "ue0143ue0144ue0145ue0146ue0147ue0148ue0149ue014aue014bue014cue014due014e" \o
             "ue014fue0150ue0151ue0152ue0153ue0154ue0155ue0156ue0157ue0158ue0159ue015a" \o
             "ue015bue015cue015due015eue015fue0160ue0161ue0162ue0163ue0164ue0165ue0166" \o
             "ue0167ue0168ue0169ue016aue016bue016cue016due016eue016fue0170ue0171ue0172" \o
             "ue0173ue0174ue0175ue0176ue0177ue0178ue0179ue017aue017bue017cue017due017e" \o
             "ue017fue0180ue0181ue0182ue0183ue0184ue0185ue0186ue0187ue0188ue0189ue018a" \o
             "ue018bue018cue018due018eue018fue0190ue0191ue0192ue0193ue0194ue0195ue0196" \o
             "ue0197ue0198ue0199ue019aue019bue019cue019due019eue019fue01a0ue01a1ue01a2" \o
             "ue01a3ue01a4ue01a5ue01a6ue01a7ue01a8ue01a9ue01aaue01abue01acue01adue01ae" \o
             "ue01afue01b0ue01b1ue01b2ue01b3ue01b4ue01b5ue01b6ue01b7ue01b8ue01b9ue01ba" \o
             "ue01bbue01bcue01bdue01beue01bfue01c0ue01c1ue01c2ue01c3ue01c4ue01c5ue01c6" \o
             "ue01c7ue01c8ue01c9ue01caue01cbue01ccue01cdue01ceue01cfue01d0ue01d1ue01d2" \o
             "ue01d3ue01d4ue01d5ue01d6ue01d7ue01d8ue01d9ue01daue01dbue01dcue01ddue01de" \o
             "ue01dfue01e0ue01e1ue01e2ue01e3ue01e4ue01e5ue01e6ue01e7ue01e8ue01e9ue01ea" \o
             "ue01ebue01ecue01edue01eeue01ef", 6)

\* the characters str.lower() changes, each followed by what it becomes
LowerPairs ==
  Pairs("AaBbCcDdEeFfGgHhIiJjKkLlMmNnOoPpQqRrSsTtUuVvWwXxYyZz", 1)
  \cup Pairs("u00c0u00e0u00c1u00e1u00c2u00e2u00c3u00e3u00c4u00e4u00c5u00e5u00c6u00e6" \o
             "u00c7u00e7u00c8u00e8u00c9u00e9u00cau00eau00cbu00ebu00ccu00ecu00cdu00ed" \o
             "u00ceu00eeu00cfu00efu00d0u00f0u00d1u00f1u00d2u00f2u00d3u00f3u00d4u00f4" \o
             "u00d5u00f5u00d6u00f6u00d8u00f8u00d9u00f9u00dau00fau00dbu00fbu00dcu00fc" \o
             "u00ddu00fdu00deu00feu0100u0101u0102u0103u0104u0105u0106u0107u0108u0109" \o
             "u010au010bu010cu010du010eu010fu0110u0111u0112u0113u0114u0115u0116u0117" \o
             "u0118u0119u011au011bu011cu011du011eu011fu0120u0121u0122u0123u0124u0125" \o
             "u0126u0127u0128u0129u012au012bu012cu012du012eu012fu0132u0133u0134u0135" \o
             "u0136u0137u0139u013au013bu013cu013du013eu013fu0140u0141u0142u0143u0144" \o
             "u0145u0146u0147u0148u014au014bu014cu014du014eu014fu0150u0151u0152u0153" \o
             "u0154u0155u0156u0157u0158u0159u015au015bu015cu015du015eu015fu0160u0161" \o
             "u0162u0163u0164u0165u0166u0167u0168u0169u016au016bu016cu016du016eu016f" \o
             "u0170u0171u0172u0173u0174u0175u0176u0177u0178u00ffu0179u017au017bu017c" \o
             "u017du017eu0181u0253u0182u0183u0184u0185u0186u0254u0187u0188u0189u0256" \o
             "u018au0257u018bu018cu018eu01ddu018fu0259u0190u025bu0191u0192u0193u0260" \o
             "u0194u0263u0196u0269u0197u0268u0198u0199u019cu026fu019du0272u019fu0275" \o
             "u01a0u01a1u01a2u01a3u01a4u01a5u01a6u0280u01a7u01a8u01a9u0283u01acu01ad" \o
             "u01aeu0288u01afu01b0u01b1u028au01b2u028bu01b3u01b4u01b5u01b6u01b7u0292" \o
             "u01b8u01b9u01bcu01bdu01c4u01c6u01c5u01c6u01c7u01c9u01c8u01c9u01cau01cc" \o
             "u01cbu01ccu01cdu01ceu01cfu01d0u01d1u01d2u01d3u01d4u01d5u01d6u01d7u01d8" \o
             "u01d9u01dau01dbu01dcu01deu01dfu01e0u01e1u01e2u01e3u01e4u01e5u01e6u01e7" \o
             "u01e8u01e9u01eau01ebu01ecu01edu01eeu01efu01f1u01f3u01f2u01f3u01f4u01f5" \o
             "u01f6u0195u01f7u01bfu01f8u01f9u01fau01fbu01fcu01fdu01feu01ffu0200u0201" \o
             "u0202u0203u0204u0205u0206u0207u0208u0209u020au020bu020cu020du020eu020f" \o
             "u0210u0211u0212u0213u0214u0215u0216u0217u0218u0219u021au021bu021cu021d" \o
             "u021eu021fu0220u019eu0222u0223u0224u0225u0226u0227u0228u0229u022au022b" \o
             "u022cu022du022eu022fu0230u0231u0232u0233u023au2c65u023bu023cu023du019a" \o
             "u023eu2c66u0241u0242u0243u0180u0244u0289u0245u028cu0246u0247u0248u0249" \o
             "u024au024bu024cu024du024eu024fu0370u0371u0372u0373u0376u0377u037fu03f3" \o
             "u0386u03acu0388u03adu0389u03aeu038au03afu038cu03ccu038eu03cdu038fu03ce" \o
             "u0391u03b1u0392u03b2u0393u03b3u0394u03b4u0395u03b5u0396u03b6u0397u03b7" \o
             "u0398u03b8u0399u03b9u039au03bau039bu03bbu039cu03bcu039du03bdu039eu03be" \o
             "u039fu03bfu03a0u03c0u03a1u03c1u03a4u03c4u03a5u03c5u03a6u03c6u03a7u03c7" \o
             "u03a8u03c8u03a9u03c9u03aau03cau03abu03cbu03cfu03d7u03d8u03d9u03dau03db" \o
             "u03dcu03ddu03deu03dfu03e0u03e1u03e2u03e3u03e4u03e5u03e6u03e7u03e8u03e9" \o
             "u03eau03ebu03ecu03edu03eeu03efu03f4u03b8u03f7u03f8u03f9u03f2u03fau03fb" \o
             "u03fdu037bu03feu037cu03ffu037du0400u0450u0401u0451u0402u0452u0403u0453" \o
             "u0404u0454u0405u0455u0406u0456u0407u0457u0408u0458u0409u0459u040au045a" \o
             "u040bu045bu040cu045cu040du045du040eu045eu040fu045fu0410u0430u0411u0431" \o
             "u0412u0432u0413u0433u0414u0434u0415u0435u0416u0436u0417u0437u0418u0438" \o
             "u0419u0439u041au043au041bu043bu041cu043cu041du043du041eu043eu041fu043f" \o
             "u0420u0440u0421u0441u0422u0442u0423u0443u0424u0444u0425u0445u0426u0446" \o
             "u0427u0447u0428u0448u0429u0449u042au044au042bu044bu042cu044cu042du044d" \o
             "u042eu044eu042fu044fu0460u0461u0462u0463u0464u0465u0466u0467u0468u0469" \o
             "u046au046bu046cu046du046eu046fu0470u0471u0472u0473u0474u0475u0476u0477" \o
             "u0478u0479u047au047bu047cu047du047eu047fu0480u0481u048au048bu048cu048d" \o
             "u048eu048fu0490u0491u0492u0493u0494u0495u0496u0497u0498u0499u049au049b" \o
             "u049cu049du049eu049fu04a0u04a1u04a2u04a3u04a4u04a5u04a6u04a7u04a8u04a9" \o
             "u04aau04abu04acu04adu04aeu04afu04b0u04b1u04b2u04b3u04b4u04b5u04b6u04b7" \o
             "u04b8u04b9u04bau04bbu04bcu04bdu04beu04bfu04c0u04cfu04c1u04c2u04c3u04c4" \o
             "u04c5u04c6u04c7u04c8u04c9u04cau04cbu04ccu04cdu04ceu04d0u04d1u04d2u04d3" \o
             "u04d4u04d5u04d6u04d7u04d8u04d9u04dau04dbu04dcu04ddu04deu04dfu04e0u04e1" \o
             "u04e2u04e3u04e4u04e5u04e6u04e7u04e8u04e9u04eau04ebu04ecu04edu04eeu04ef" \o
             "u04f0u04f1u04f2u04f3u04f4u04f5u04f6u04f7u04f8u04f9u04fau04fbu04fcu04fd" \o
             "u04feu04ffu0500u0501u0502u0503u0504u0505u0506u0507u0508u0509u050au050b" \o
             "u050cu050du050eu050fu0510u0511u0512u0513u0514u0515u0516u0517u0518u0519" \o
             "u051au051bu051cu051du051eu051fu0520u0521u0522u0523u0524u0525u0526u0527" \o
             "u0528u0529u052au052bu052cu052du052eu052fu0531u0561u0532u0562u0533u0563" \o
             "u0534u0564u0535u0565u0536u0566u0537u0567u0538u0568u0539u0569u053au056a" \o
             "u053bu056bu053cu056cu053du056du053eu056eu053fu056fu0540u0570u0541u0571" \o
             "u0542u0572u0543u0573u0544u0574u0545u0575u0546u0576u0547u0577u0548u0578" \o
             "u0549u0579u054au057au054bu057bu054cu057cu054du057du054eu057eu054fu057f" \o
             "u0550u0580u0551u0581u0552u0582u0553u0583u0554u0584u0555u0585u0556u0586" \o
             "u10a0u2d00u10a1u2d01u10a2u2d02u10a3u2d03u10a4u2d04u10a5u2d05u10a6u2d06" \o
             "u10a7u2d07u10a8u2d08u10a9u2d09u10aau2d0au10abu2d0bu10acu2d0cu10adu2d0d" \o
             "u10aeu2d0eu10afu2d0fu10b0u2d10u10b1u2d11u10b2u2d12u10b3u2d13u10b4u2d14" \o
             "u10b5u2d15u10b6u2d16u10b7u2d17u10b8u2d18u10b9u2d19u10bau2d1au10bbu2d1b" \o
             "u10bcu2d1cu10bdu2d1du10beu2d1eu10bfu2d1fu10c0u2d20u10c1u2d21u10c2u2d22" \o
             "u10c3u2d23u10c4u2d24u10c5u2d25u10c7u2d27u10cdu2d2du13a0uab70u13a1uab71" \o
             "u13a2uab72u13a3uab73u13a4uab74u13a5uab75u13a6uab76u13a7uab77u13a8uab78" \o
             "u13a9uab79u13aauab7au13abuab7bu13acuab7cu13aduab7du13aeuab7eu13afuab7f" \o
             "u13b0uab80u13b1uab81u13b2uab82u13b3uab83u13b4uab84u13b5uab85u13b6uab86" \o
             "u13b7uab87u13b8uab88u13b9uab89u13bauab8au13bbuab8bu13bcuab8cu13bduab8d" \o
             "u13beuab8eu13bfuab8fu13c0uab90u13c1uab91u13c2uab92u13c3uab93u13c4uab94" \o
             "u13c5uab95u13c6uab96u13c7uab97u13c8uab98u13c9uab99u13cauab9au13cbuab9b" \o
             "u13ccuab9cu13cduab9du13ceuab9eu13cfuab9fu13d0uaba0u13d1uaba1u13d2uaba2" \o
             "u13d3uaba3u13d4uaba4u13d5uaba5u13d6uaba6u13d7uaba7u13d8uaba8u13d9uaba9" \o
             "u13dauabaau13dbuababu13dcuabacu13dduabadu13deuabaeu13dfuabafu13e0uabb0" \o
             "u13e1uabb1u13e2uabb2u13e3uabb3u13e4uabb4u13e5uabb5u13e6uabb6u13e7uabb7" \o
             "u13e8uabb8u13e9uabb9u13eauabbau13ebuabbbu13ecuabbcu13eduabbdu13eeuabbe" \o
             "u13efuabbfu13f0u13f8u13f1u13f9u13f2u13fau13f3u13fbu13f4u13fcu13f5u13fd" \o
             "u1c90u10d0u1c91u10d1u1c92u10d2u1c93u10d3u1c94u10d4u1c95u10d5u1c96u10d6" \o
             "u1c97u10d7u1c98u10d8u1c99u10d9u1c9au10dau1c9bu10dbu1c9cu10dcu1c9du10dd" \o
             "u1c9eu10deu1c9fu10dfu1ca0u10e0u1ca1u10e1u1ca2u10e2u1ca3u10e3u1ca4u10e4" \o
             "u1ca5u10e5u1ca6u10e6u1ca7u10e7u1ca8u10e8u1ca9u10e9u1caau10eau1cabu10eb" \o
             "u1cacu10ecu1cadu10edu1caeu10eeu1cafu10efu1cb0u10f0u1cb1u10f1u1cb2u10f2" \o
             "u1cb3u10f3u1cb4u10f4u1cb5u10f5u1cb6u10f6u1cb7u10f7u1cb8u10f8u1cb9u10f9" \o
             "u1cbau10fau1cbdu10fdu1cbeu10feu1cbfu10ffu1e00u1e01u1e02u1e03u1e04u1e05" \o
             "u1e06u1e07u1e08u1e09u1e0au1e0bu1e0cu1e0du1e0eu1e0fu1e10u1e11u1e12u1e13" \o
             "u1e14u1e15u1e16u1e17u1e18u1e19u1e1au1e1bu1e1cu1e1du1e1eu1e1fu1e20u1e21" \o
             "u1e22u1e23u1e24u1e25u1e26u1e27u1e28u1e29u1e2au1e2bu1e2cu1e2du1e2eu1e2f" \o
             "u1e30u1e31u1e32u1e33u1e34u1e35u1e36u1e37u1e38u1e39u1e3au1e3bu1e3cu1e3d" \o
             "u1e3eu1e3fu1e40u1e41u1e42u1e43u1e44u1e45u1e46u1e47u1e48u1e49u1e4au1e4b" \o
             "u1e4cu1e4du1e4eu1e4fu1e50u1e51u1e52u1e53u1e54u1e55u1e56u1e57u1e58u1e59" \o
             "u1e5au1e5bu1e5cu1e5du1e5eu1e5fu1e60u1e61u1e62u1e63u1e64u1e65u1e66u1e67" \o
             "u1e68u1e69u1e6au1e6bu1e6cu1e6du1e6eu1e6fu1e70u1e71u1e72u1e73u1e74u1e75" \o
             "u1e76u1e77u1e78u1e79u1e7au1e7bu1e7cu1e7du1e7eu1e7fu1e80u1e81u1e82u1e83" \o
             "u1e84u1e85u1e86u1e87u1e88u1e89u1e8au1e8bu1e8cu1e8du1e8eu1e8fu1e90u1e91" \o
             "u1e92u1e93u1e94u1e95u1e9eu00dfu1ea0u1ea1u1ea2u1ea3u1ea4u1ea5u1ea6u1ea7" \o
             "u1ea8u1ea9u1eaau1eabu1eacu1eadu1eaeu1eafu1eb0u1eb1u1eb2u1eb3u1eb4u1eb5" \o
             "u1eb6u1eb7u1eb8u1eb9u1ebau1ebbu1ebcu1ebdu1ebeu1ebfu1ec0u1ec1u1ec2u1ec3" \o
             "u1ec4u1ec5u1ec6u1ec7u1ec8u1ec9u1ecau1ecbu1eccu1ecdu1eceu1ecfu1ed0u1ed1" \o
             "u1ed2u1ed3u1ed4u1ed5u1ed6u1ed7u1ed8u1ed9u1edau1edbu1edcu1eddu1edeu1edf" \o
             "u1ee0u1ee1u1ee2u1ee3u1ee4u1ee5u1ee6u1ee7u1ee8u1ee9u1eeau1eebu1eecu1eed" \o
             "u1eeeu1eefu1ef0u1ef1u1ef2u1ef3u1ef4u1ef5u1ef6u1ef7u1ef8u1ef9u1efau1efb" \o
             "u1efcu1efdu1efeu1effu1f08u1f00u1f09u1f01u1f0au1f02u1f0bu1f03u1f0cu1f04" \o
             "u1f0du1f05u1f0eu1f06u1f0fu1f07u1f18u1f10u1f19u1f11u1f1au1f12u1f1bu1f13" \o
             "u1f1cu1f14u1f1du1f15u1f28u1f20u1f29u1f21u1f2au1f22u1f2bu1f23u1f2cu1f24" \o
             "u1f2du1f25u1f2eu1f26u1f2fu1f27u1f38u1f30u1f39u1f31u1f3au1f32u1f3bu1f33" \o
             "u1f3cu1f34u1f3du1f35u1f3eu1f36u1f3fu1f37u1f48u1f40u1f49u1f41u1f4au1f42" \o
             "u1f4bu1f43u1f4cu1f44u1f4du1f45u1f59u1f51u1f5bu1f53u1f5du1f55u1f5fu1f57" \o
             "u1f68u1f60u1f69u1f61u1f6au1f62u1f6bu1f63u1f6cu1f64u1f6du1f65u1f6eu1f66" \o
             "u1f6fu1f67u1f88u1f80u1f89u1f81u1f8au1f82u1f8bu1f83u1f8cu1f84u1f8du1f85" \o
             "u1f8eu1f86u1f8fu1f87u1f98u1f90u1f99u1f91u1f9au1f92u1f9bu1f93u1f9cu1f94" \o
             "u1f9du1f95u1f9eu1f96u1f9fu1f97u1fa8u1fa0u1fa9u1fa1u1faau1fa2u1fabu1fa3" \o
             "u1facu1fa4u1fadu1fa5u1faeu1fa6u1fafu1fa7u1fb8u1fb0u1fb9u1fb1u1fbau1f70" \o
             "u1fbbu1f71u1fbcu1fb3u1fc8u1f72u1fc9u1f73u1fcau1f74u1fcbu1f75u1fccu1fc3" \o
             "u1fd8u1fd0u1fd9u1fd1u1fdau1f76u1fdbu1f77u1fe8u1fe0u1fe9u1fe1u1feau1f7a" \o
             "u1febu1f7bu1fecu1fe5u1ff8u1f78u1ff9u1f79u1ffau1f7cu1ffbu1f7du1ffcu1ff3" \o
             "u2126u03c9u212bu00e5u2132u214eu2160u2170u2161u2171u2162u2172u2163u2173" \o
             "u2164u2174u2165u2175u2166u2176u2167u2177u2168u2178u2169u2179u216au217a" \o
             "u216bu217bu216cu217cu216du217du216eu217eu216fu217fu2183u2184u24b6u24d0" \o
             "u24b7u24d1u24b8u24d2u24b9u24d3u24bau24d4u24bbu24d5u24bcu24d6u24bdu24d7" \o
             "u24beu24d8u24bfu24d9u24c0u24dau24c1u24dbu24c2u24dcu24c3u24ddu24c4u24de" \o
             "u24c5u24dfu24c6u24e0u24c7u24e1u24c8u24e2u24c9u24e3u24cau24e4u24cbu24e5" \o
             "u24ccu24e6u24cdu24e7u24ceu24e8u24cfu24e9u2c00u2c30u2c01u2c31u2c02u2c32" \o
             "u2c03u2c33u2c04u2c34u2c05u2c35u2c06u2c36u2c07u2c37u2c08u2c38u2c09u2c39" \o
             "u2c0au2c3au2c0bu2c3bu2c0cu2c3cu2c0du2c3du2c0eu2c3eu2c0fu2c3fu2c10u2c40" \o
             "u2c11u2c41u2c12u2c42u2c13u2c43u2c14u2c44u2c15u2c45u2c16u2c46u2c17u2c47" \o
             "u2c18u2c48u2c19u2c49u2c1au2c4au2c1bu2c4bu2c1cu2c4cu2c1du2c4du2c1eu2c4e" \o
             "u2c1fu2c4fu2c20u2c50u2c21u2c51u2c22u2c52u2c23u2c53u2c24u2c54u2c25u2c55" \o
             "u2c26u2c56u2c27u2c57u2c28u2c58u2c29u2c59u2c2au2c5au2c2bu2c5bu2c2cu2c5c" \o
             "u2c2du2c5du2c2eu2c5eu2c2fu2c5fu2c60u2c61u2c62u026bu2c63u1d7du2c64u027d" \o
             "u2c67u2c68u2c69u2c6au2c6bu2c6cu2c6du0251u2c6eu0271u2c6fu0250u2c70u0252" \o
             "u2c72u2c73u2c75u2c76u2c7eu023fu2c7fu0240u2c80u2c81u2c82u2c83u2c84u2c85" \o
             "u2c86u2c87u2c88u2c89u2c8au2c8bu2c8cu2c8du2c8eu2c8fu2c90u2c91u2c92u2c93" \o
             "u2c94u2c95u2c96u2c97u2c98u2c99u2c9au2c9bu2c9cu2c9du2c9eu2c9fu2ca0u2ca1" \o
             "u2ca2u2ca3u2ca4u2ca5u2ca6u2ca7u2ca8u2ca9u2caau2cabu2cacu2cadu2caeu2caf" \o
             "u2cb0u2cb1u2cb2u2cb3u2cb4u2cb5u2cb6u2cb7u2cb8u2cb9u2cbau2cbbu2cbcu2cbd" \o
             "u2cbeu2cbfu2cc0u2cc1u2cc2u2cc3u2cc4u2cc5u2cc6u2cc7u2cc8u2cc9u2ccau2ccb" \o
             "u2cccu2ccdu2cceu2ccfu2cd0u2cd1u2cd2u2cd3u2cd4u2cd5u2cd6u2cd7u2cd8u2cd9" \o
             "u2cdau2cdbu2cdcu2cddu2cdeu2cdfu2ce0u2ce1u2ce2u2ce3u2cebu2cecu2cedu2cee" \o
             "u2cf2u2cf3ua640ua641ua642ua643ua644ua645ua646ua647ua648ua649ua64aua64b" \o
             "ua64cua64dua64eua64fua650ua651ua652ua653ua654ua655ua656ua657ua658ua659" \o
             "ua65aua65bua65cua65dua65eua65fua660ua661ua662ua663ua664ua665ua666ua667" \o
             "ua668ua669ua66aua66bua66cua66dua680ua681ua682ua683ua684ua685ua686ua687" \o
             "ua688ua689ua68aua68bua68cua68dua68eua68fua690ua691ua692ua693ua694ua695" \o
             "ua696ua697ua698ua699ua69aua69bua722ua723ua724ua725ua726ua727ua728ua729" \o
             "ua72aua72bua72cua72dua72eua72fua732ua733ua734ua735ua736ua737ua738ua739" \o
             "ua73aua73bua73cua73dua73eua73fua740ua741ua742ua743ua744ua745ua746ua747" \o
             "ua748ua749ua74aua74bua74cua74dua74eua74fua750ua751ua752ua753ua754ua755" \o
             "ua756ua757ua758ua759ua75aua75bua75cua75dua75eua75fua760ua761ua762ua763" \o
             "ua764ua765ua766ua767ua768ua769ua76aua76bua76cua76dua76eua76fua779ua77a" \o
             "ua77bua77cua77du1d79ua77eua77fua780ua781ua782ua783ua784ua785ua786ua787" \o
             "ua78bua78cua78du0265ua790ua791ua792ua793ua796ua797ua798ua799ua79aua79b" \o
             "ua79cua79dua79eua79fua7a0ua7a1ua7a2ua7a3ua7a4ua7a5ua7a6ua7a7ua7a8ua7a9" \o
             "ua7aau0266ua7abu025cua7acu0261ua7adu026cua7aeu026aua7b0u029eua7b1u0287" \o
             "ua7b2u029dua7b3uab53ua7b4ua7b5ua7b6ua7b7ua7b8ua7b9ua7baua7bbua7bcua7bd" \o
             "ua7beua7bfua7c0ua7c1ua7c2ua7c3ua7c4ua794ua7c5u0282ua7c6u1d8eua7c7ua7c8" \o
             "ua7c9ua7caua7d0ua7d1ua7d6ua7d7ua7d8ua7d9ua7f5ua7f6uff21uff41uff22uff42" \o
             "uff23uff43uff24uff44uff25uff45uff26uff46uff27uff47uff28uff48uff29uff49" \o
             "uff2auff4auff2buff4buff2cuff4cuff2duff4duff2euff4euff2fuff4fuff30uff50" \o
             "uff31uff51uff32uff52uff33uff53uff34uff54uff35uff55uff36uff56uff37uff57" \o
             "uff38uff58uff39uff59uff3auff5a", 5)
  \cup Pairs("u10400u10428u10401u10429u10402u1042au10403u1042bu10404u1042cu10405u1042d" \o
             "u10406u1042eu10407u1042fu10408u10430u10409u10431u1040au10432u1040bu10433" \o
             "u1040cu10434u1040du10435u1040eu10436u1040fu10437u10410u10438u10411u10439" \o
             "u10412u1043au10413u1043bu10414u1043cu10415u1043du10416u1043eu10417u1043f" \o
             "u10418u10440u10419u10441u1041au10442u1041bu10443u1041cu10444u1041du10445" \o
             "u1041eu10446u1041fu10447u10420u10448u10421u10449u10422u1044au10423u1044b" \o
             "u10424u1044cu10425u1044du10426u1044eu10427u1044fu104b0u104d8u104b1u104d9" \o
             "u104b2u104dau104b3u104dbu104b4u104dcu104b5u104ddu104b6u104deu104b7u104df" \o
             "u104b8u104e0u104b9u104e1u104bau104e2u104bbu104e3u104bcu104e4u104bdu104e5" \o
             "u104beu104e6u104bfu104e7u104c0u104e8u104c1u104e9u104c2u104eau104c3u104eb" \o
             "u104c4u104ecu104c5u104edu104c6u104eeu104c7u104efu104c8u104f0u104c9u104f1" \o
             "u104cau104f2u104cbu104f3u104ccu104f4u104cdu104f5u104ceu104f6u104cfu104f7" \o
             "u104d0u104f8u104d1u104f9u104d2u104fau104d3u104fbu10570u10597u10571u10598" \o
             "u10572u10599u10573u1059au10574u1059bu10575u1059cu10576u1059du10577u1059e" \o
             "u10578u1059fu10579u105a0u1057au105a1u1057cu105a3u1057du105a4u1057eu105a5" \o
             "u1057fu105a6u10580u105a7u10581u105a8u10582u105a9u10583u105aau10584u105ab" \o
             "u10585u105acu10586u105adu10587u105aeu10588u105afu10589u105b0u1058au105b1" \o
             "u1058cu105b3u1058du105b4u1058eu105b5u1058fu105b6u10590u105b7u10591u105b8" \o
             "u10592u105b9u10594u105bbu10595u105bcu10c80u10cc0u10c81u10cc1u10c82u10cc2" \o
             "u10c83u10cc3u10c84u10cc4u10c85u10cc5u10c86u10cc6u10c87u10cc7u10c88u10cc8" \o
             "u10c89u10cc9u10c8au10ccau10c8bu10ccbu10c8cu10cccu10c8du10ccdu10c8eu10cce" \o
             "u10c8fu10ccfu10c90u10cd0u10c91u10cd1u10c92u10cd2u10c93u10cd3u10c94u10cd4" \o
             "u10c95u10cd5u10c96u10cd6u10c97u10cd7u10c98u10cd8u10c99u10cd9u10c9au10cda" \o
             "u10c9bu10cdbu10c9cu10cdcu10c9du10cddu10c9eu10cdeu10c9fu10cdfu10ca0u10ce0" \o
             "u10ca1u10ce1u10ca2u10ce2u10ca3u10ce3u10ca4u10ce4u10ca5u10ce5u10ca6u10ce6" \o
             "u10ca7u10ce7u10ca8u10ce8u10ca9u10ce9u10caau10ceau10cabu10cebu10cacu10cec" \o
             "u10cadu10cedu10caeu10ceeu10cafu10cefu10cb0u10cf0u10cb1u10cf1u10cb2u10cf2" \o
             "u118a0u118c0u118a1u118c1u118a2u118c2u118a3u118c3u118a4u118c4u118a5u118c5" \o
             "u118a6u118c6u118a7u118c7u118a8u118c8u118a9u118c9u118aau118cau118abu118cb" \o
             "u118acu118ccu118adu118cdu118aeu118ceu118afu118cfu118b0u118d0u118b1u118d1" \o
             "u118b2u118d2u118b3u118d3u118b4u118d4u118b5u118d5u118b6u118d6u118b7u118d7" \o
             "u118b8u118d8u118b9u118d9u118bau118dau118bbu118dbu118bcu118dcu118bdu118dd" \o
             "u118beu118deu118bfu118dfu16e40u16e60u16e41u16e61u16e42u16e62u16e43u16e63" \o
             "u16e44u16e64u16e45u16e65u16e46u16e66u16e47u16e67u16e48u16e68u16e49u16e69" \o
             "u16e4au16e6au16e4bu16e6bu16e4cu16e6cu16e4du16e6du16e4eu16e6eu16e4fu16e6f" \o
             "u16e50u16e70u16e51u16e71u16e52u16e72u16e53u16e73u16e54u16e74u16e55u16e75" \o
             "u16e56u16e76u16e57u16e77u16e58u16e78u16e59u16e79u16e5au16e7au16e5bu16e7b" \o
             "u16e5cu16e7cu16e5du16e7du16e5eu16e7eu16e5fu16e7fu1e900u1e922u1e901u1e923" \o
             "u1e902u1e924u1e903u1e925u1e904u1e926u1e905u1e927u1e906u1e928u1e907u1e929" \o
             "u1e908u1e92au1e909u1e92bu1e90au1e92cu1e90bu1e92du1e90cu1e92eu1e90du1e92f" \o
             "u1e90eu1e930u1e90fu1e931u1e910u1e932u1e911u1e933u1e912u1e934u1e913u1e935" \o
             "u1e914u1e936u1e915u1e937u1e916u1e938u1e917u1e939u1e918u1e93au1e919u1e93b" \o
             "u1e91au1e93cu1e91bu1e93du1e91cu1e93eu1e91du1e93fu1e91eu1e940u1e91fu1e941" \o
             "u1e920u1e942u1e921u1e943", 6)
  \cup {<<"u0130", "i", "u0307">>, <<"u212a", "k">>}

Range(s) == {s[i] : i \in DOMAIN s}
\* c is in [A-Z], in [a-z]
IsUpperChar(c) == c \in Range(UpperChars)
IsLowerChar(c) == c \in Range(LowerChars)
\* c matches \d, \s
IsDigitChar(c) == c \in DigitChars
IsSpaceChar(c) == c \in SpaceChars
\* c.islower(), c.isupper() for one character, and the cased characters
IsLowercase(c) == c \in LowercaseChars
IsUppercase(c) == c \in UppercaseChars
IsCased(c) == c \in LowercaseChars \/ c \in UppercaseChars \/ c \in TitlecaseChars

\* the characters the pattern letter c matches under re.IGNORECASE: both
\* cases of the letter and the characters the re module holds equivalent
FoldClass(c) ==
  LET class(l, u) ==
        {l, u} \cup (IF l = "i" THEN {"u0130", "u0131"}
                     ELSE IF l = "s" THEN {"u017f"}
                     ELSE IF l = "k" THEN {"u212a"}
                     ELSE {})
      letter(i) == class(LowerChars[i], UpperChars[i])
  IN  letter(CHOOSE k \in DOMAIN LowerChars : c \in {LowerChars[k], UpperChars[k]})

\* t starts with the word w, matched under re.IGNORECASE
StartsWithFold(t, w) ==
  Len(t) >= Len(w) /\ \A k \in DOMAIN w : t[k] \in FoldClass(w[k])

\* the word w occurs in t, matched under re.IGNORECASE
ContainsFold(t, w) ==
  \E i \in 0..(Len(t) - Len(w)) : \A k \in DOMAIN w : t[i + k] \in FoldClass(w[k])

\* what str.lower() makes of each character it changes
LowerMap ==
  LET map(pairs) ==
        [c \in {p[1] : p \in pairs} |-> Tail(CHOOSE p \in pairs : p[1] = c)]
  IN  map(LowerPairs)

\* the capital sigma, whose lowercase depends on its place in the word
Sigma == "u03a3"

\* str.lower() of the one-character string c
LowerChar(c) ==
  IF c = Sigma THEN <<"u03c3">>
  ELSE IF c \in DOMAIN LowerMap THEN LowerMap[c]
  ELSE <<c>>

\* t[i] is a capital sigma at the end of a word: a cased character stands
\* before it and none after it, case-ignorable characters skipped
FinalSigma(t, i) ==
  LET ends(before, after, cased) ==
        /\ before # {}
        /\ (CHOOSE j \in before : \A k \in before : k <= j) \in cased
        /\ \/ after = {}
           \/ (CHOOSE j \in after : \A k \in after : j <= k) \notin cased
      around(solid) ==
        ends({j \in solid : j < i}, {j \in solid : j > i},
             {j \in DOMAIN t : IsCased(t[j])})
  IN  around({j \in DOMAIN t : t[j] \notin CaseIgnorableChars})

\* str.lower()
Lower(t) ==
  LET joined(part, wide) ==
        LET start(i) == i + Cardinality({j \in wide : j < i})
            from(k, i) == part[i][k - start(i) + 1]
        IN  IF wide = {} THEN [i \in DOMAIN t |-> part[i][1]]
            ELSE [k \in 1..(Len(t) + Cardinality(wide)) |->
                    from(k, CHOOSE j \in DOMAIN t :
                              start(j) <= k /\ k < start(j) + Len(part[j]))]
      parts(part) == joined(part, {i \in DOMAIN t : Len(part[i]) = 2})
  IN  parts([i \in DOMAIN t |->
               IF t[i] = Sigma /\ FinalSigma(t, i) THEN <<"u03c2">>
               ELSE LowerChar(t[i])])

\* str.strip(): the characters from the first to the last non-blank one
Strip(t) ==
  LET kept(solid) ==
        IF solid = {} THEN <<>>
        ELSE SubSeq(t, CHOOSE i \in solid : \A j \in solid : i <= j,
                       CHOOSE i \in solid : \A j \in solid : j <= i)
  IN  kept({i \in DOMAIN t : ~IsSpaceChar(t[i])})

\* str.rstrip(':')
RStripColon(t) ==
  LET solid == {i \in DOMAIN t : t[i] # ":"}
  IN  IF solid = {} THEN <<>>
      ELSE SubSeq(t, 1, CHOOSE i \in solid : \A j \in solid : j <= i)

\* str.startswith / str.endswith / `in`
StartsWith(t, p) == Len(t) >= Len(p) /\ SubSeq(t, 1, Len(p)) = p
EndsWith(t, s) == Len(t) >= Len(s) /\ SubSeq(t, Len(t) - Len(s) + 1, Len(t)) = s
Contains(t, s) ==
  \E i \in 0..(Len(t) - Len(s)) : SubSeq(t, i + 1, i + Len(s)) = s

\* str.isupper(): at least one uppercase character and no lowercase or
\* titlecase one
IsUpper(t) ==
  /\ \E i \in DOMAIN t : IsUppercase(t[i])
  /\ \A i \in DOMAIN t : ~IsLowercase(t[i]) /\ t[i] \notin TitlecaseChars

\* len(str.split()): the number of maximal runs of non-whitespace characters
WordCount(t) ==
  Cardinality({i \in DOMAIN t :
                 ~IsSpaceChar(t[i]) /\ (i = 1 \/ IsSpaceChar(t[i - 1]))})

\* re.sub(r'\s+', ' ', t): every maximal run of whitespace becomes one blank
CollapseWs(t) ==
  LET blanked == [i \in DOMAIN t |-> IF IsSpaceChar(t[i]) THEN " " ELSE t[i]]
      keep == SelectSeq([i \in DOMAIN t |-> i],
                        LAMBDA i : ~IsSpaceChar(t[i]) \/ i = 1
                                   \/ ~IsSpaceChar(t[i - 1]))
  IN  [k \in DOMAIN keep |-> blanked[keep[k]]]

\* the length of the longest run of characters of class C that starts at t[i]
RunLen(t, i, C) ==
  LET stops == {j \in i..Len(t) : t[j] \notin C}
  IN  IF stops = {} THEN (IF i <= Len(t) THEN Len(t) - i + 1 ELSE 0)
      ELSE (CHOOSE j \in stops : \A k \in stops : j <= k) - i

\* a pattern's `$` at t[i]: the end of the text, or its final line feed
AtEnd(t, i) == i > Len(t) \/ (i = Len(t) /\ t[i] \in NewlineChars)

(***************************************************************************)
(* Floating point                                                          *)
(*                                                                         *)
(* Sizes are Python floats (IEEE 754 binary64): the size written n         *)
(* hundredths is the double nearest to n/100, and the products and         *)
(* comparisons of the source are computed on doubles.  A double is         *)
(* [m, e, dir]: its value is m * 2^e, m a 53-bit integer held as four      *)
(* limbs of 14 bits, the least significant first; dir tells how the        *)
(* rounding that produced it moved the exact value (1 up, -1 down, 0 not   *)
(* at all).                                                                *)
(***************************************************************************)
Limb == 2 ^ 14

\* the limbs of a natural number below 2^31
Limbs(p) == <<p % Limb, (p \div Limb) % Limb, p \div (Limb * Limb)>>

LimbAt(a, i) == IF i \in DOMAIN a THEN a[i] ELSE 0

\* column sums turned into limbs, carry c coming in
RECURSIVE Carry(_, _)
Carry(cols, c) ==
  IF cols = <<>> THEN <<>>
  ELSE <<(Head(cols) + c) % Limb>>
         \o Carry(Tail(cols), (Head(cols) + c) \div Limb)

\* the sum of a[i] * b[j] over i + j = k + 1, from a[i] on
RECURSIVE Column(_, _, _, _)
Column(a, b, k, i) ==
  IF i > Len(a) THEN 0
  ELSE a[i] * LimbAt(b, k + 1 - i) + Column(a, b, k, i + 1)

\* a * b
Mul(a, b) == Carry([k \in 1..(Len(a) + Len(b)) |-> Column(a, b, k, 1)], 0)

\* a divided by the small number d, from limb i down: [quot, rem]
RECURSIVE DivFrom(_, _, _, _)
DivFrom(a, d, i, rem) ==
  IF i = 0 THEN [quot |-> <<>>, rem |-> rem]
  ELSE LET cur == rem * Limb + a[i]
           on(low) == [quot |-> Append(low.quot, cur \div d), rem |-> low.rem]
       IN  on(DivFrom(a, d, i - 1, cur % d))

\* the number of bits of a
BitLen(a) ==
  LET top(h) ==
        14 * (h - 1) + (CHOOSE k \in 1..14 : a[h] < 2 ^ k /\ a[h] >= 2 ^ (k - 1))
      len(used) ==
        IF used = {} THEN 0 ELSE top(CHOOSE i \in used : \A j \in used : j <= i)
  IN  len({i \in DOMAIN a : a[i] # 0})

\* a divided by 2^s, the remainder dropped
ShiftRight(a, s) ==
  LET q == s \div 14
      r == s % 14
  IN  [i \in 1..(Len(a) - q) |->
         (LimbAt(a, i + q) \div 2 ^ r)
           + (LimbAt(a, i + q + 1) % 2 ^ r) * 2 ^ (14 - r)]

\* bit k of a, bit 0 the lowest
BitAt(a, k) == (LimbAt(a, k \div 14 + 1) \div 2 ^ (k % 14)) % 2

\* the s lowest bits of a are zero
LowZero(a, s) ==
  /\ \A i \in 1..(s \div 14) : LimbAt(a, i) = 0
  /\ LimbAt(a, s \div 14 + 1) % 2 ^ (s % 14) = 0

\* the double nearest to n * 2^e (a little more when sticky), ties to the
\* even mantissa; n has more than 53 bits
RoundDouble(n, sticky, e) ==
  LET side(half, clean, odd) ==
        IF half /\ (~clean \/ odd) THEN 1 ELSE IF half \/ ~clean THEN -1 ELSE 0
      normal(m, x, dir) ==
        IF BitLen(m) > 53
          THEN [m |-> SubSeq(ShiftRight(m, 1), 1, 4), e |-> x + 1, dir |-> dir]
          ELSE [m |-> SubSeq(m, 1, 4), e |-> x, dir |-> dir]
      rounded(s, dir) ==
        normal(IF dir = 1 THEN Carry(ShiftRight(n, s), 1) ELSE ShiftRight(n, s),
               e + s, dir)
      cut(s) ==
        rounded(s, side(BitAt(n, s - 1) = 1, LowZero(n, s - 1) /\ ~sticky,
                        BitAt(n, s) = 1))
  IN  cut(BitLen(n) - 53)

\* the double nearest to p / q, for 0 < p < 2^31 and 0 < q <= 100: p * 2^70
\* divided by q, rounded
Double(p, q) ==
  LET round(d) == RoundDouble(d.quot, d.rem # 0, -70)
  IN  round(DivFrom(<<0, 0, 0, 0, 0>> \o Limbs(p), q, 8, 0))

\* x * y
FloatMul(x, y) == RoundDouble(Mul(x.m, y.m), FALSE, x.e + y.e)

\* x < y
FloatLess(x, y) ==
  \/ x.e < y.e
  \/ /\ x.e = y.e
     /\ \E i \in 1..4 : /\ x.m[i] < y.m[i]
                        /\ \A j \in (i + 1)..4 : x.m[j] = y.m[j]

\* size >= k * body for the decimal literal k = factor / 100, size and body
\* in hundredths: the literal, the product and the comparison are doubles
AtLeast(size, factor, body) ==
  IF body = 0 THEN TRUE
  ELSE IF size = 0 THEN FALSE
  ELSE ~FloatLess(Double(size, 100),
                  FloatMul(Double(factor, 100), Double(body, 100)))

(***************************************************************************)
(* run.py: is_likely_heading                                               *)
(***************************************************************************)
ContinuationSuffixes ==
  {<<",">>, <<";">>, <<"a","n","d">>, <<"o","r">>, <<"t","h","e">>, <<"a">>,
   <<"a","n">>, <<"t","o">>, <<"o","f">>, <<"i","n">>, <<"f","o","r">>,
   <<"w","i","t","h">>}

\* the words of the alternation of line 42 (the pattern has re.I)
PrefixWords ==
  {<<"c","h","a","p","t","e","r">>, <<"s","e","c","t","i","o","n">>,
   <<"p","a","r","t">>, <<"a","r","t","i","c","l","e">>}

\* [IVX] under re.I
RomanChars == UNION {FoldClass(c) : c \in {"I", "V", "X"}}

\* re.match(r'^\d+\.', t)
MatchesNumberDot(t) ==
  LET dot(n) == n >= 1 /\ Len(t) >= n + 1 /\ t[n + 1] = "."
  IN  dot(RunLen(t, 1, DigitChars))

\* re.match(r'^[bullets]\s', t)
MatchesBullet(t) ==
  Len(t) >= 2 /\ t[1] \in BulletChars /\ IsSpaceChar(t[2])

\* re.match(r'^(Chapter|Section|Part|Article|\d+\.|[IVX]+\.)\s', t, re.I)
MatchesHeadingPrefix(t) ==
  \/ \E w \in PrefixWords :
        /\ StartsWithFold(t, w)
        /\ Len(t) > Len(w)
        /\ IsSpaceChar(t[Len(w) + 1])
  \/ \E C \in {DigitChars, RomanChars} :
        LET n == RunLen(t, 1, C)
        IN  /\ n >= 1
            /\ Len(t) >= n + 2
            /\ t[n + 1] = "."
            /\ IsSpaceChar(t[n + 2])

\* the tail (\s+[A-Z][a-z]*)*$ of the title case pattern, matched from t[i]
RECURSIVE TitleCaseTail(_, _)
TitleCaseTail(t, i) ==
  IF AtEnd(t, i) THEN TRUE
  ELSE LET s == RunLen(t, i, SpaceChars)
           j == i + s
       IN  /\ s >= 1
           /\ j <= Len(t)
           /\ IsUpperChar(t[j])
           /\ TitleCaseTail(t, j + 1 + RunLen(t, j + 1, Range(LowerChars)))

\* re.match(r'^[A-Z][a-z]+(\s+[A-Z][a-z]*)*$', t)
MatchesTitleCase(t) ==
  /\ Len(t) >= 2
  /\ IsUpperChar(t[1])
  /\ RunLen(t, 2, Range(LowerChars)) >= 1
  /\ TitleCaseTail(t, 2 + RunLen(t, 2, Range(LowerChars)))

\* position_top < 0.2 for position_top = y / page_height
TopOfPage(y, page_height) == 5 * y < page_height

\* the score of lines 29-55
strong_indicators(text, size, body_size, weight, y, page_height) ==
    (IF AtLeast(size, 130, body_size) THEN 2
     ELSE IF AtLeast(size, 115, body_size) THEN 1 ELSE 0)
  + (IF weight THEN 1 ELSE 0)
  + (IF MatchesHeadingPrefix(text) THEN 2 ELSE 0)
  + (IF IsUpper(text) /\ 3 <= Len(text) /\ Len(text) <= 50 THEN 1 ELSE 0)
  + (IF TopOfPage(y, page_height) THEN 1 ELSE 0)
  + (IF MatchesTitleCase(text) THEN 1 ELSE 0)

is_likely_heading(text0, size, body_size, weight, y, page_height) ==
  LET likely(text) ==
        IF Len(text) < 3 THEN FALSE
        ELSE IF \E s \in ContinuationSuffixes : EndsWith(text, s) THEN FALSE
        ELSE IF IsLowercase(text[1]) /\ ~MatchesNumberDot(text) THEN FALSE
        ELSE IF MatchesBullet(text) THEN FALSE
        ELSE strong_indicators(text, size, body_size, weight, y, page_height) >= 2
  IN  likely(Strip(text0))

(***************************************************************************)
(* run.py: extract_outline                                                 *)
(*                                                                         *)
(* A document is [readable, meta, pages]; readable = FALSE is a file that  *)
(* fitz.open rejects.  meta is [has, title]: has = FALSE is a metadata     *)
(* dictionary whose title is None or missing.  A page is [broken, height,  *)
(* lines]: broken = TRUE is a page whose get_text raises; lines are the    *)
(* lines of its blocks in the order the PDF layer delivers them.  A line   *)
(* is [spans, y, bboxOk]: y is bbox[1], bboxOk = FALSE is a bbox too short *)
(* to index.  A span is [text, size, flags, font].                         *)
(***************************************************************************)
UntitledDocument ==
  <<"U","n","t","i","t","l","e","d"," ","D","o","c","u","m","e","n","t">>

BoldWord == <<"b","o","l","d">>

LevelOneWords ==
  {<<"C","h","a","p","t","e","r">>, <<"C","H","A","P","T","E","R">>,
   <<"S","e","c","t","i","o","n">>, <<"S","E","C","T","I","O","N">>,
   <<"P","a","r","t">>, <<"P","A","R","T">>}

FragmentEndings ==
  {<<" ","a","n","d">>, <<" ","o","r">>, <<" ","t","h","e">>, <<" ","o","f">>,
   <<" ","i","n">>, <<" ","t","o">>, <<" ","f","o","r">>}

\* "".join(span.get("text", "") for span in line.get("spans", []))
RECURSIVE JoinText(_)
JoinText(spans) ==
  IF spans = <<>> THEN <<>> ELSE Head(spans).text \o JoinText(Tail(spans))

\* lines 71-90 over the lines of one page, in delivery order: acc is the list
\* `spans` so far; the result is [spans, raised]
RECURSIVE CollectLines(_, _, _, _)
CollectLines(lines, page_num, page_height, acc) ==
  IF lines = <<>> THEN [spans |-> acc, raised |-> FALSE]
  ELSE LET line == Head(lines)
           text == Strip(JoinText(line.spans))
       IN  IF text = <<>> \/ line.spans = <<>>
             THEN CollectLines(Tail(lines), page_num, page_height, acc)
           ELSE IF ~line.bboxOk
             THEN [spans |-> acc, raised |-> TRUE]
           ELSE CollectLines(Tail(lines), page_num, page_height,
                  Append(acc, [page        |-> page_num,
                               text        |-> text,
                               font        |-> line.spans[1].font,
                               size        |-> line.spans[1].size,
                               flags       |-> line.spans[1].flags,
                               y           |-> line.y,
                               page_height |-> page_height]))

\* the try block of lines 68-93 for one page
CollectPage(page, page_num, acc) ==
  IF page.broken THEN [spans |-> acc, raised |-> TRUE]
  ELSE CollectLines(page.lines, page_num, page.height, acc)

\* the loop of lines 67-93: the list `spans` after the pages from page_num on
RECURSIVE CollectSpans(_, _, _)
CollectSpans(pages, page_num, acc) ==
  IF page_num > Len(pages) THEN acc
  ELSE CollectSpans(pages, page_num + 1,
                    CollectPage(pages[page_num], page_num, acc).spans)

\* round(s, 1) on a size in hundredths of a point: the tenth nearest to the
\* double that holds s.  Halfway between two tenths the double decides: it
\* lies above or below s/100, or is s/100 itself (x.25, x.75) and the tie
\* goes to the even tenth
Round1(s) ==
  LET tenth(r, dir) ==
        IF r < 5 THEN s - r
        ELSE IF r > 5 THEN s - r + 10
        ELSE IF dir > 0 THEN s + 5
        ELSE IF dir < 0 THEN s - 5
        ELSE IF ((s \div 10) % 2) = 0 THEN s - 5 ELSE s + 5
  IN  tenth(s % 10, Double(s, 100).dir)

\* sizes = [round(s, 1) for s in df["size"] if s > 0]
RoundedSizes(spans) ==
  LET keep == SelectSeq(spans, LAMBDA sp : sp.size > 0)
  IN  [i \in DOMAIN keep |-> Round1(keep[i].size)]

CountOf(sizes, v) == Cardinality({i \in DOMAIN sizes : sizes[i] = v})

\* collections.Counter(sizes).most_common(1)[0][0]: the Counter keeps its
\* keys in first-insertion order and most_common(1) is max() over its items,
\* which returns the first key whose count is the largest
MostCommon(sizes) ==
  LET best == CHOOSE i \in DOMAIN sizes :
                /\ \A j \in DOMAIN sizes :
                      CountOf(sizes, sizes[j]) <= CountOf(sizes, sizes[i])
                /\ \A j \in 1..(i - 1) :
                      CountOf(sizes, sizes[j]) < CountOf(sizes, sizes[i])
  IN  sizes[best]

\* lines 100-110
BodySize(spans) ==
  LET body(sizes) == IF sizes # <<>> THEN MostCommon(sizes) ELSE 1200
  IN  body(RoundedSizes(spans))

\* line 113
Weight(sp) ==
  ((sp.flags \div 2) % 2 = 1) \/ ContainsFold(sp.font, BoldWord)

\* MatchesNumberedCapital with the special case of lines 135-136 left out
NeverNumberedCapital(t) == FALSE

\* re.match(r'^\d+\.\s+[A-Z]', t)
MatchesNumberedCapital(t) ==
  LET capital(n, s) ==
        /\ n >= 1
        /\ Len(t) >= n + 1
        /\ t[n + 1] = "."
        /\ s >= 1
        /\ Len(t) >= n + 2 + s
        /\ IsUpperChar(t[n + 2 + s])
      number(n) == capital(n, RunLen(t, n + 2, SpaceChars))
  IN  number(RunLen(t, 1, DigitChars))

\* lines 122-136
Level(sp, body) ==
  LET bySize(w) ==
        IF AtLeast(sp.size, 150, body) \/ (w /\ AtLeast(sp.size, 130, body))
          THEN "H1"
        ELSE IF AtLeast(sp.size, 125, body) \/ w THEN "H2"
        ELSE "H3"
      level(text) ==
        IF IsUpper(text) /\ Len(text) <= 30 THEN "H1"
        ELSE IF \E k \in LevelOneWords : StartsWith(text, k) THEN "H1"
        ELSE IF MatchesNumberedCapital(text) THEN "H2"
        ELSE bySize(Weight(sp))
  IN  level(Strip(sp.text))

\* lines 117-144: row is the index of the DataFrame row the entry was built
\* from (kept to relate an outline entry to its line; not part of the output)
RECURSIVE PotentialHeadings(_, _, _)
PotentialHeadings(spans, body, i) ==
  IF i > Len(spans) THEN <<>>
  ELSE LET sp == spans[i]
           rest == PotentialHeadings(spans, body, i + 1)
           row(weight) ==
             IF is_likely_heading(sp.text, sp.size, body, weight, sp.y,
                                  sp.page_height)
               THEN <<[level  |-> Level(sp, body),
                       text   |-> Strip(sp.text),
                       page   |-> sp.page,
                       size   |-> sp.size,
                       weight |-> weight,
                       row    |-> i]>> \o rest
               ELSE rest
       IN  row(Weight(sp))

\* df[(df["text"] == x["text"]) & (df["page"] == x["page"])]["y"].iloc[0]:
\* the y of the first collected row with the heading's text and page
FirstMatchingY(h, spans) ==
  LET i == CHOOSE i \in DOMAIN spans :
             /\ spans[i].text = h.text /\ spans[i].page = h.page
             /\ \A j \in 1..(i - 1) :
                   ~(spans[j].text = h.text /\ spans[j].page = h.page)
  IN  spans[i].y

\* the sort key of line 147
SortKey(h, spans) == <<h.page, FirstMatchingY(h, spans)>>

\* tuple comparison a < b
KeyLess(a, b) == a[1] < b[1] \/ (a[1] = b[1] /\ a[2] < b[2])

\* h inserted behind every element whose key is not larger (list.sort is stable)
RECURSIVE InsertByKey(_, _, _)
InsertByKey(sorted, h, spans) ==
  IF sorted = <<>> THEN <<h>>
  ELSE IF KeyLess(SortKey(h, spans), SortKey(Head(sorted), spans))
    THEN <<h>> \o sorted
    ELSE <<Head(sorted)>> \o InsertByKey(Tail(sorted), h, spans)

RECURSIVE SortFrom(_, _, _)
SortFrom(hs, sorted, spans) ==
  IF hs = <<>> THEN sorted
  ELSE SortFrom(Tail(hs), InsertByKey(sorted, Head(hs), spans), spans)

\* line 147
SortHeadings(hs, spans) == SortFrom(hs, <<>>, spans)

\* line 157
TextKey(text) == CollapseWs(Strip(Lower(text)))

\* re.match(r'^[A-Z][a-z]+$', t)
MatchesCapitalizedWord(t) ==
  /\ Len(t) >= 2
  /\ IsUpperChar(t[1])
  /\ RunLen(t, 2, Range(LowerChars)) >= 1
  /\ AtEnd(t, 2 + RunLen(t, 2, Range(LowerChars)))

\* lines 162-163
IsFragment(text) ==
  /\ WordCount(text) = 1
  /\ Len(text) < 15
  /\ ~IsUpper(text)
  /\ ~MatchesCapitalizedWord(text)

\* line 167
HasFragmentEnding(text) ==
  \E e \in FragmentEndings : EndsWith(Lower(text), e)

\* IsSeen with the key looked up nowhere: no heading counts as seen
IsSeenNever(h, seen) == FALSE

\* line 158
IsSeen(h, seen) == TextKey(h.text) \in seen

\* the loop of lines 153-175: the headings kept, in order
RECURSIVE Deduplicate(_, _)
Deduplicate(hs, seen) ==
  IF hs = <<>> THEN <<>>
  ELSE LET h == Head(hs)
       IN  IF IsSeen(h, seen) THEN Deduplicate(Tail(hs), seen)
           ELSE IF IsFragment(h.text) THEN Deduplicate(Tail(hs), seen)
           ELSE IF HasFragmentEnding(h.text) THEN Deduplicate(Tail(hs), seen)
           ELSE <<h>> \o Deduplicate(Tail(hs), seen \cup {TextKey(h.text)})

\* the headings kept by lines 117-175 for the collected spans
Kept(spans) ==
  Deduplicate(SortHeadings(PotentialHeadings(spans, BodySize(spans), 1), spans),
              {})

\* lines 170-174: the entry appended to `cleaned`
Entry(h) == [level |-> h.level, text |-> h.text, page |-> h.page]

Cleaned(spans) ==
  LET entries(k) == [i \in DOMAIN k |-> Entry(k[i])] IN entries(Kept(spans))

\* lines 181-185
MetadataTitle(meta, title) ==
  IF meta.has /\ meta.title # <<>> THEN Strip(meta.title) ELSE title

\* lines 188-189
FirstHeadingTitle(cleaned, title) ==
  IF title = UntitledDocument /\ cleaned # <<>> THEN cleaned[1].text ELSE title

\* df["size"].idxmax(): the first row holding the largest size
IdxMax(spans) ==
  CHOOSE i \in DOMAIN spans :
    /\ \A j \in DOMAIN spans : spans[j].size <= spans[i].size
    /\ \A j \in 1..(i - 1) : spans[j].size < spans[i].size

\* lines 192-198
LargestTextTitle(spans, title) ==
  IF title = UntitledDocument /\ spans # <<>>
    THEN LET largest_text == Strip(spans[IdxMax(spans)].text)
         IN  IF Len(largest_text) > 5 THEN largest_text ELSE title
    ELSE title

\* lines 177-198
Title(meta, cleaned, spans) ==
  LargestTextTitle(spans,
    FirstHeadingTitle(cleaned, MetadataTitle(meta, UntitledDocument)))

\* line 205
LanguagesDetected(spans) ==
  IF \E i \in DOMAIN spans : \E j \in DOMAIN spans[i].text :
        IsUpperChar(spans[i].text[j]) \/ IsLowerChar(spans[i].text[j])
    THEN <<"latin">> ELSE <<>>

\* lines 63-93 for a document that opens
Spans(doc) == CollectSpans(doc.pages, 1, <<>>)

\* run.py extract_outline for a document that opens (lines 63-207)
extract_outline(doc) ==
  LET result(spans, cleaned) ==
        IF spans = <<>>
          THEN [title    |-> UntitledDocument,
                outline  |-> <<>>,
                metadata |-> [total_pages |-> Len(doc.pages),
                              languages_detected |-> <<>>]]
          ELSE [title    |-> Title(doc.meta, cleaned, spans),
                outline  |-> cleaned,
                metadata |-> [total_pages |-> Len(doc.pages),
                              languages_detected |-> LanguagesDetected(spans)]]
      outlined(spans) == result(spans, Cleaned(spans))
  IN  outlined(Spans(doc))

\* extract_outline raises (lines 209-210): fitz.open rejects the file
Raises(doc) == ~doc.readable

(***************************************************************************)
(* main.py: PDFOutlineExtractor                                            *)
(***************************************************************************)
ErrorProcessingDocument ==
  <<"E","r","r","o","r"," ","P","r","o","c","e","s","s","i","n","g"," ",
    "D","o","c","u","m","e","n","t">>

\* self.meaningful_headings, in insertion order
meaningful_headings ==
  <<[heading |-> <<"m","i","s","s","i","o","n"," ","s","t","a","t","e","m","e","n","t">>,
     level |-> "H2"],
    [heading |-> <<"g","o","a","l","s">>, level |-> "H2"],
    [heading |-> <<"p","a","t","h","w","a","y"," ","o","p","t","i","o","n","s">>,
     level |-> "H1"],
    [heading |-> <<"r","e","g","u","l","a","r"," ","p","a","t","h","w","a","y">>,
     level |-> "H2"],
    [heading |-> <<"d","i","s","t","i","n","c","t","i","o","n"," ","p","a","t","h","w","a","y">>,
     level |-> "H2"],
    [heading |-> <<"e","l","e","c","t","i","v","e"," ","c","o","u","r","s","e"," ",
                   "o","f","f","e","r","i","n","g","s">>,
     level |-> "H2"],
    [heading |-> <<"w","h","a","t"," ","c","o","l","l","e","g","e","s"," ","s","a","y">>,
     level |-> "H2"],
    [heading |-> <<"c","o","n","f","e","r","e","n","c","e"," ","a","n","d"," ",
                   "a","w","a","r","d","s">>,
     level |-> "H2"]>>

\* self.exclude_words
exclude_words ==
  {<<"s","c","i","e","n","c","e">>, <<"m","a","t","h">>,
   <<"t","e","c","h","n","o","l","o","g","y">>, <<"a","r","t">>,
   <<"a","p","p","l","i","e","d">>, <<"h","e","r","e">>, <<"a","n","d">>,
   <<"o","r">>, <<"w","i","t","h">>, <<"t","h","e">>, <<"a">>, <<"a","n">>,
   <<"i","n">>, <<"o","n">>, <<"a","t">>, <<"a","p","p","r","o","v","a","l">>,
   <<"a","d","v","i","s","o","r">>, <<"s","e","m","i","n","a","r">>,
   <<"r","e","s","e","a","r","c","h">>, <<"c","a","p","t","s","o","n","e">>}

\* bool(span.get("flags", 0) & 2**4)
IsBold(flags) == (flags \div 16) % 2 = 1

\* the level "no heading" (None)
NoLevel == "None"

\* a line's bbox[1] is read and the bbox is too short: IndexError
BadBbox(line) == ~line.bboxOk

\* the spans of one page with their line, in the order of the nested loops
RECURSIVE PageSpans(_)
PageSpans(lines) ==
  IF lines = <<>> THEN <<>>
  ELSE LET line == Head(lines)
       IN  [i \in DOMAIN line.spans |->
              [text |-> line.spans[i].text, size |-> line.spans[i].size,
               flags |-> line.spans[i].flags, y |-> line.y,
               bboxOk |-> line.bboxOk]]
           \o PageSpans(Tail(lines))

\* lines 56-62: the span is a title candidate (its bbox is read only when the
\* size and bold tests pass)
ReadsTitleBbox(s) ==
  LET text == Strip(s.text)
  IN  Len(text) > 10 /\ s.size >= 1400 /\ IsBold(s.flags)

IsTitleCandidate(s) == ReadsTitleBbox(s) /\ s.y < 150

\* (-x[1], x[2]) of a < that of b
CandidateLess(a, b) == a.size > b.size \/ (a.size = b.size /\ a.y < b.y)

\* title_candidates.sort(...)[0]: the first candidate that no other precedes
BestCandidate(cands) ==
  CHOOSE i \in DOMAIN cands :
    /\ \A j \in DOMAIN cands : ~CandidateLess(cands[j], cands[i])
    /\ \A j \in 1..(i - 1) : CandidateLess(cands[i], cands[j])

\* extract_title_from_first_page raises
TitleRaises(doc) ==
  /\ doc.pages # <<>>
  /\ \/ doc.pages[1].broken
     \/ \E i \in DOMAIN PageSpans(doc.pages[1].lines) :
          LET s == PageSpans(doc.pages[1].lines)[i]
          IN  ReadsTitleBbox(s) /\ ~s.bboxOk

\* extract_title_from_first_page (lines 42-71), when it does not raise
extract_title_from_first_page(doc) ==
  IF doc.pages = <<>> THEN UntitledDocument
  ELSE LET cands == SelectSeq(PageSpans(doc.pages[1].lines), IsTitleCandidate)
       IN  IF cands = <<>> THEN UntitledDocument
           ELSE Strip(cands[BestCandidate(cands)].text)

\* the first entry, in insertion order, whose heading occurs in text_lower
RECURSIVE FirstContained(_, _)
FirstContained(table, text_lower) ==
  IF table = <<>> THEN NoLevel
  ELSE IF Contains(text_lower, Head(table).heading) THEN Head(table).level
  ELSE FirstContained(Tail(table), text_lower)

\* is_meaningful_heading (lines 73-86)
is_meaningful_heading(text) ==
  LET level(text_lower, direct) ==
        IF direct # {}
          THEN meaningful_headings[CHOOSE i \in direct : TRUE].level
          ELSE FirstContained(meaningful_headings, text_lower)
      match(text_lower) ==
        level(text_lower, {i \in DOMAIN meaningful_headings :
                             meaningful_headings[i].heading = text_lower})
  IN  match(RStripColon(Strip(Lower(text))))

\* should_exclude_text (lines 88-108)
should_exclude_text(text) ==
  LET text_lower == Strip(Lower(text))
  IN  \/ Len(text) < 4
      \/ text_lower \in exclude_words
      \/ EndsWith(text, <<"/">>)
      \/ StartsWith(text, <<".">>)
      \/ StartsWith(text, <<"*">>)
      \/ (WordCount(text) = 1 /\ ~EndsWith(text, <<":">>))

\* a prefix of p characters, then \s+(.+)$: whitespace, then one character
\* or more up to the end, none of them a line feed but a final one
PrefixThenRest(t, p) ==
  \E k \in 1..RunLen(t, p + 1, SpaceChars) :
    LET r == p + k + 1
        feeds == {j \in r..Len(t) : t[j] \in NewlineChars}
    IN  /\ r <= Len(t)
        /\ t[r] \notin NewlineChars
        /\ feeds \subseteq {Len(t)}

\* the length of the longest match of \d+(\.\d+){k} at the start of t, 0 if none
RECURSIVE DottedNumber(_, _, _)
DottedNumber(t, i, k) ==
  LET number(n) ==
        IF n = 0 THEN 0
        ELSE IF k = 0 THEN i + n - 1
        ELSE IF i + n <= Len(t) /\ t[i + n] = "."
          THEN DottedNumber(t, i + n + 1, k - 1)
          ELSE 0
  IN  number(RunLen(t, i, DigitChars))

\* the loop of lines 128-136 over self.heading_patterns.  The prefix of
\* pattern 1 (\d+\.) passes the first test and gives H1; the prefixes of
\* patterns 2 and 3 (\d+\.\d+ and \d+\.\d+\.\d+) both pass the second test,
\* ^\d+\.\d+, and give H2; the prefixes of patterns 4 to 8 pass none of the
\* three tests, so the loop goes on and ends without a level.
NumberedLevel(t) ==
  LET level(n, two, three) ==
        IF n >= 1 /\ Len(t) >= n + 1 /\ t[n + 1] = "." /\ PrefixThenRest(t, n + 1)
          THEN "H1"
        ELSE IF two > 0 /\ PrefixThenRest(t, two) THEN "H2"
        ELSE IF three > 0 /\ PrefixThenRest(t, three) THEN "H2"
        ELSE NoLevel
  IN  level(RunLen(t, 1, DigitChars), DottedNumber(t, 1, 1),
            DottedNumber(t, 1, 2))

\* lines 138-148
FontLevel(text, font_size, is_bold) ==
  IF font_size >= 1800 /\ is_bold THEN "H1"
  ELSE IF font_size >= 1600 /\ is_bold THEN "H2"
  ELSE IF font_size >= 1400 /\ is_bold /\ Len(text) > 10 THEN "H2"
  ELSE IF font_size >= 1200 /\ is_bold /\ Len(text) > 15 THEN "H3"
  ELSE NoLevel

\* analyze_text_structure (lines 110-148)
analyze_text_structure(text0, font_size, is_bold, y_pos, doc_title) ==
  LET level(text, meaningful, numbered) ==
        IF should_exclude_text(text) THEN NoLevel
        ELSE IF text = doc_title THEN NoLevel
        ELSE IF meaningful # NoLevel THEN meaningful
        ELSE IF numbered # NoLevel THEN numbered
        ELSE FontLevel(text, font_size, is_bold)
      analyze(text) ==
        level(text, is_meaningful_heading(text), NumberedLevel(text))
  IN  analyze(Strip(text0))

\* lines 184-203 for one page: page_headings before the sort
RECURSIVE PageHeadings(_, _, _)
PageHeadings(ss, page_num, doc_title) ==
  IF ss = <<>> THEN <<>>
  ELSE LET s == Head(ss)
           rest == PageHeadings(Tail(ss), page_num, doc_title)
           heading(text, level) ==
             IF level # NoLevel /\ text # <<>>
               THEN <<[level |-> level, text |-> text, page |-> page_num,
                       y_pos |-> s.y]>> \o rest
               ELSE rest
           span(text) ==
             heading(text, analyze_text_structure(text, s.size, IsBold(s.flags),
                                                  s.y, doc_title))
       IN  span(Strip(s.text))

\* h inserted behind every element whose y_pos is not larger (line 206)
RECURSIVE InsertByY(_, _)
InsertByY(sorted, h) ==
  IF sorted = <<>> THEN <<h>>
  ELSE IF h.y_pos < Head(sorted).y_pos THEN <<h>> \o sorted
  ELSE <<Head(sorted)>> \o InsertByY(Tail(sorted), h)

RECURSIVE SortByY(_, _)
SortByY(hs, sorted) ==
  IF hs = <<>> THEN sorted ELSE SortByY(Tail(hs), InsertByY(sorted, Head(hs)))

\* lines 178-214: `outline` before the duplicates are removed
RECURSIVE TextAnalysisOutline(_, _, _)
TextAnalysisOutline(pages, page_num, doc_title) ==
  IF page_num > Len(pages) THEN <<>>
  ELSE LET entries(hs) == [i \in DOMAIN hs |-> Entry(hs[i])]
       IN  entries(SortByY(PageHeadings(PageSpans(pages[page_num].lines),
                                        page_num, doc_title), <<>>))
           \o TextAnalysisOutline(pages, page_num + 1, doc_title)

\* line 220
UniqueKey(item) == <<Lower(item.text), item.page>>

\* line 221
IsNewKey(item, seen) == UniqueKey(item) \notin seen

\* lines 217-223
RECURSIVE UniqueOutline(_, _)
UniqueOutline(outline, seen) ==
  IF outline = <<>> THEN <<>>
  ELSE IF IsNewKey(Head(outline), seen)
    THEN <<Head(outline)>>
         \o UniqueOutline(Tail(outline), seen \cup {UniqueKey(Head(outline))})
    ELSE UniqueOutline(Tail(outline), seen)

\* extract_from_text_analysis (lines 173-225), when it does not raise
extract_from_text_analysis(doc, doc_title) ==
  UniqueOutline(TextAnalysisOutline(doc.pages, 1, doc_title), {})

\* extract_from_text_analysis raises: a page whose get_text raises, or a
\* line with a span whose bbox is too short (line 191)
AnalysisRaises(doc) ==
  \E p \in DOMAIN doc.pages :
    \/ doc.pages[p].broken
    \/ \E i \in DOMAIN doc.pages[p].lines :
         doc.pages[p].lines[i].spans # <<>> /\ BadBbox(doc.pages[p].lines[i])

\* the try block of main.py extract_outline fails (lines 152-159)
MainFails(doc) == ~doc.readable \/ TitleRaises(doc) \/ AnalysisRaises(doc)

\* main.py extract_outline (lines 150-171)
main_extract_outline(doc) ==
  IF MainFails(doc)
    THEN [title |-> ErrorProcessingDocument, outline |-> <<>>]
    ELSE LET result(title) ==
               [title   |-> title,
                outline |-> extract_from_text_analysis(doc, title)]
         IN  result(extract_title_from_first_page(doc))

(***************************************************************************)
(* The batch drivers: main of run.py and main of main.py                   *)
(*                                                                         *)
(* files is the listing of the input directory, a sequence of [name, doc]: *)
(* name is the file name and doc the document the file holds.  outputs[i]  *)
(* is the content of the output file named for file i: <<>> while the file *)
(* does not exist, <<result>> once a result was written to it.  Two files  *)
(* with one output name share the output file, and a write replaces its    *)
(* content; a write that fails after the file was opened leaves the        *)
(* beginning of the JSON text only, <<Truncated>>.  idx is the position    *)
(* of the loop.  log is the standard output, one event per printed line:   *)
(* the kind of the line, the file it names and, for the warning about a    *)
(* page, the page.  The traceback of an exception that leaves main goes    *)
(* to the standard error and is not kept.  console is how sys.stdout       *)
(* turns text into bytes, its encoding and its error handler, which the    *)
(* locale and the environment (PYTHONIOENCODING, PYTHONUTF8) set before    *)
(* the program starts: print raises on a line the console cannot encode    *)
(* and prints nothing of it.                                               *)
(*                                                                         *)
(* A byte of a file name that is not UTF-8 reaches the program as a        *)
(* surrogate, U+DC80 to U+DCFF for the bytes 80 to FF (os.fsdecode), and   *)
(* goes back to the byte in the output name.                               *)
(*                                                                         *)
(* The output directory starts empty, on a device that takes what is       *)
(* written.  A write then fails for one of two reasons: the file system    *)
(* refuses the output name, which has passed the NameMax bytes a name can  *)
(* have (".json" is one byte longer than ".pdf"), or the result holds a    *)
(* text that UTF-8 cannot encode, a lone surrogate.                        *)
(***************************************************************************)
PdfSuffix == <<".","p","d","f">>
JsonSuffix == <<".","j","s","o","n">>

\* the bytes a file name may have (NAME_MAX of the Linux file systems)
NameMax == 255

\* the code points U+D800 to U+DFFF
IsSurrogate(c) ==
  /\ Len(c) = 5
  /\ SubSeq(c, 1, 2) = "ud"
  /\ SubSeq(c, 3, 3) \in Chars("89abcdef", 1)

\* a byte of a file name that is not UTF-8, as os.listdir and Path.glob
\* return it: the code points U+DC80 to U+DCFF
IsEscape(c) ==
  /\ Len(c) = 5
  /\ SubSeq(c, 1, 3) = "udc"
  /\ SubSeq(c, 4, 4) \in Chars("89abcdef", 1)

\* the bytes of the character c in a file name (os.fsencode): in UTF-8 one
\* below U+0080, two below U+0800, three below U+10000 and four from there
\* on, and the one byte an escape stands for
Utf8Bytes(c) ==
  IF Len(c) = 1 \/ IsEscape(c) THEN 1
  ELSE IF Len(c) > 5 THEN 4
  ELSE IF SubSeq(c, 2, 2) # "0" THEN 3
  ELSE IF SubSeq(c, 3, 3) \notin Chars("01234567", 1) THEN 3
  ELSE IF SubSeq(c, 3, 3) = "0" /\ SubSeq(c, 4, 4) \in Chars("01234567", 1) THEN 1
  ELSE 2

Utf8Len(t) ==
  LET n(b) == Cardinality({i \in DOMAIN t : Utf8Bytes(t[i]) = b})
  IN  n(1) + 2 * n(2) + 3 * n(3) + 4 * n(4)

\* a name a directory can hold, as os.listdir returns it: of 1 to NameMax
\* bytes, without a slash or a null, and of characters and escaped bytes.
\* Bytes that are the UTF-8 of a character arrive as the character, so no
\* run of escapes is one: a lead byte C2-DF, E0-EF or F0-F4 with its one,
\* two or three continuation bytes 80-BF (after E0 from A0, after ED to
\* 9F, after F0 from 90, after F4 to 8F)
ValidName(name) ==
  LET high(i) == IF i \in DOMAIN name /\ IsEscape(name[i])
                 THEN SubSeq(name[i], 4, 4) ELSE ""
      low(i) == SubSeq(name[i], 5, 5)
      cont(i) == high(i) \in Chars("89ab", 1)
      second(i, from) == high(i) \in Chars(from, 1)
      decodes(i) ==
        \/ /\ \/ high(i) = "c" /\ low(i) \notin Chars("01", 1)
              \/ high(i) = "d"
           /\ cont(i + 1)
        \/ /\ high(i) = "e"
           /\ second(i + 1, IF low(i) = "0" THEN "ab"
                             ELSE IF low(i) = "d" THEN "89" ELSE "89ab")
           /\ cont(i + 2)
        \/ /\ high(i) = "f" /\ low(i) \in Chars("01234", 1)
           /\ second(i + 1, IF low(i) = "0" THEN "9ab"
                             ELSE IF low(i) = "4" THEN "8" ELSE "89ab")
           /\ cont(i + 2)
           /\ cont(i + 3)
  IN  /\ name \notin {<<>>, <<".">>, <<".", ".">>}
      /\ Utf8Len(name) <= NameMax
      /\ \A i \in DOMAIN name :
            /\ name[i] \notin {"/", "u0000"}
            /\ IsSurrogate(name[i]) => IsEscape(name[i])
            /\ ~decodes(i)

\* a directory holds no name twice
DistinctNames(listing) ==
  \A i, j \in DOMAIN listing : i # j => listing[i].name # listing[j].name

\* what os.listdir and Path.glob can return
ValidListing(listing) ==
  /\ DistinctNames(listing)
  /\ \A i \in DOMAIN listing : ValidName(listing[i].name)

\* open(output_path, "w", encoding=...) raises (run.py line 227, main.py
\* line 249): the output name is too long for the file system
OpenFails(outname) == Utf8Len(outname) > NameMax

\* json.dump(..., ensure_ascii=False) raises while it writes (run.py line
\* 228, main.py line 250): the title or the text of an entry holds a
\* character the file's encoding refuses
DumpFails(result) ==
  \/ \E i \in DOMAIN result.title : IsSurrogate(result.title[i])
  \/ \E e \in DOMAIN result.outline :
        \E i \in DOMAIN result.outline[e].text : IsSurrogate(result.outline[e].text[i])

\* the with block of run.py lines 227-228 and main.py lines 249-250 ends
\* without an exception
WriteSucceeds(outname, result) == ~OpenFails(outname) /\ ~DumpFails(result)

\* what a failed json.dump leaves in the file that open created or emptied:
\* the text written before the string that could not be encoded
Truncated == [truncated |-> TRUE]

\* sys.stdout encodes the character c.  The console is UTF-8 or ASCII,
\* strict (the error handler of a UTF-8 locale) or with surrogateescape
\* (the handler of the C locale and of the UTF-8 mode): an escaped byte
\* goes through surrogateescape only, another surrogate through neither
\* handler, and a character above U+007F needs UTF-8
Encodes(c) ==
  IF IsEscape(c) THEN console.errors = "surrogateescape"
  ELSE IF IsSurrogate(c) THEN FALSE
  ELSE Utf8Bytes(c) = 1 \/ console.encoding = "utf-8"

\* print writes a line that holds text beside ASCII words
Prints(text) == {i \in DOMAIN text : ~Encodes(text[i])} = {}

\* the marks of run.py lines 230 and 233
CheckMark == "u2713"
Cross == "u2717"

\* fname.lower().endswith(".pdf") (run.py line 219)
RunIsPdf(f) == EndsWith(Lower(f.name), PdfSuffix)

\* input_dir.glob("*.pdf") (main.py line 235): the match is case-sensitive
MainIsPdf(f) == EndsWith(f.name, PdfSuffix)

\* pdf_files (main.py line 235), as positions in the listing
pdf_files == SelectSeq([i \in DOMAIN files |-> i], LAMBDA i : MainIsPdf(files[i]))

\* fname[:-4] + ".json" (run.py line 226)
RunOutName(f) == SubSeq(f.name, 1, Len(f.name) - 4) \o JsonSuffix

\* pdf_file.stem + ".json" (main.py line 246): the stem is the name without
\* its last suffix; a dot that begins or ends the name starts no suffix
MainOutName(f) ==
  LET stem(dots) ==
        IF dots = {} THEN f.name
        ELSE LET cut(last) ==
                   IF last = 1 \/ last = Len(f.name) THEN f.name
                   ELSE SubSeq(f.name, 1, last - 1)
             IN  cut(CHOOSE i \in dots : \A j \in dots : j <= i)
  IN  stem({i \in DOMAIN f.name : f.name[i] = "."}) \o JsonSuffix

\* the pages of doc whose collection fails, in page order: each prints the
\* warning of run.py line 92
PageWarnings(doc) ==
  SelectSeq([p \in DOMAIN doc.pages |-> p],
            LAMBDA p : CollectPage(doc.pages[p], p, <<>>).raised)

\* run.py lines 219-220
RunSkip ==
  /\ program = "run"
  /\ idx <= Len(files)
  /\ ~RunIsPdf(files[idx])
  /\ idx' = idx + 1
  /\ UNCHANGED <<program, console, files, outputs, log>>

\* the console lines of extract_outline of run.py: the warning of line 92 for
\* every page it could not collect
RunWarnings(i) ==
  LET warnings(pages) ==
        [k \in DOMAIN pages |->
           [event |-> "Warning", file |-> i, page |-> pages[k]]]
  IN  warnings(PageWarnings(files[i].doc))

\* the output files after text was written to the file named outname
WriteRun(outname, text) ==
  [j \in DOMAIN files |->
     IF RunIsPdf(files[j]) /\ RunOutName(files[j]) = outname
     THEN <<text>> ELSE outputs[j]]

\* the output files after the with block of lines 227-228: untouched when
\* open raises, truncated when json.dump raises
RunAfterWrite(outname, result) ==
  IF OpenFails(outname) THEN outputs
  ELSE WriteRun(outname, IF DumpFails(result) THEN Truncated ELSE result)

\* run.py lines 222-230: the name is printed, extract_outline warns about
\* every page it could not collect (line 92) and returns, the JSON is
\* written over whatever the output file held, and the closing line is
\* printed
RunWrite ==
  /\ program = "run"
  /\ idx <= Len(files)
  /\ RunIsPdf(files[idx])
  /\ Prints(files[idx].name)
  /\ ~Raises(files[idx].doc)
  /\ LET write(outname, result) ==
           /\ WriteSucceeds(outname, result)
           /\ outputs' = WriteRun(outname, result)
     IN  write(RunOutName(files[idx]), extract_outline(files[idx].doc))
  /\ Encodes(CheckMark)
  /\ log' = log \o <<[event |-> "Processing", file |-> idx]>>
                 \o RunWarnings(idx)
                 \o <<[event |-> "Processed", file |-> idx]>>
  /\ idx' = idx + 1
  /\ UNCHANGED <<program, console, files>>

\* run.py lines 222-230 and 232-233: extract_outline returns and the write
\* raises, in open (the output file is not touched) or in json.dump (the
\* file is left truncated), or the write succeeds and the print of the
\* closing line raises; the handler prints the error, "Processed" is not
\* printed, and the loop goes on
RunWriteError ==
  /\ program = "run"
  /\ idx <= Len(files)
  /\ RunIsPdf(files[idx])
  /\ Prints(files[idx].name)
  /\ ~Raises(files[idx].doc)
  /\ Encodes(Cross)
  /\ LET fail(outname, result) ==
           /\ ~(WriteSucceeds(outname, result) /\ Encodes(CheckMark))
           /\ outputs' = RunAfterWrite(outname, result)
     IN  fail(RunOutName(files[idx]), extract_outline(files[idx].doc))
  /\ log' = log \o <<[event |-> "Processing", file |-> idx]>>
                 \o RunWarnings(idx)
                 \o <<[event |-> "Error", file |-> idx]>>
  /\ idx' = idx + 1
  /\ UNCHANGED <<program, console, files>>

\* run.py lines 222-224 and 232-233: extract_outline raises before it reads
\* a page, the handler prints the error and the loop goes on
RunError ==
  /\ program = "run"
  /\ idx <= Len(files)
  /\ RunIsPdf(files[idx])
  /\ Prints(files[idx].name)
  /\ Raises(files[idx].doc)
  /\ Encodes(Cross)
  /\ log' = log \o <<[event |-> "Processing", file |-> idx],
                     [event |-> "Error", file |-> idx]>>
  /\ idx' = idx + 1
  /\ UNCHANGED <<program, console, files, outputs>>

\* run.py lines 222-233: the try block raises, in the print of the name
\* (nothing is done for the file), in extract_outline, in the write or in
\* the print of the closing line (the JSON was written), and the print of
\* the handler, a line with the cross and the name, raises in its turn: the
\* exception leaves the loop and main, and the files that follow are not
\* processed
RunAbort ==
  /\ program = "run"
  /\ idx <= Len(files)
  /\ RunIsPdf(files[idx])
  /\ ~(Encodes(Cross) /\ Prints(files[idx].name))
  /\ LET abort(outname, result) ==
           IF ~Prints(files[idx].name) THEN UNCHANGED <<outputs, log>>
           ELSE IF Raises(files[idx].doc)
           THEN /\ log' = log \o <<[event |-> "Processing", file |-> idx]>>
                /\ UNCHANGED outputs
           ELSE /\ ~(WriteSucceeds(outname, result) /\ Encodes(CheckMark))
                /\ outputs' = RunAfterWrite(outname, result)
                /\ log' = log \o <<[event |-> "Processing", file |-> idx]>>
                               \o RunWarnings(idx)
     IN  abort(RunOutName(files[idx]), extract_outline(files[idx].doc))
  /\ idx' = Len(files) + 1
  /\ UNCHANGED <<program, console, files>>

\* main.py lines 237-239
MainNoFiles ==
  /\ program = "main"
  /\ pdf_files = <<>>
  /\ log = <<>>
  /\ log' = <<[event |-> "No PDF files found", file |-> 0]>>
  /\ UNCHANGED <<program, console, files, idx, outputs>>

\* the console lines of main.py up to the write: line 242 and, for a
\* document that fails, the error of line 167
MainLines(i) ==
  <<[event |-> "Processing", file |-> i]>>
    \o (IF MainFails(files[i].doc)
        THEN <<[event |-> "Error", file |-> i]>> ELSE <<>>)

\* the output files after text was written to the file named outname
WriteMain(outname, text) ==
  [j \in DOMAIN files |->
     IF MainIsPdf(files[j]) /\ MainOutName(files[j]) = outname
     THEN <<text>> ELSE outputs[j]]

\* main.py lines 241-242: the print of the name raises; no handler is
\* around it, so the exception leaves the loop and main
MainPrintError ==
  /\ program = "main"
  /\ idx <= Len(pdf_files)
  /\ ~Prints(files[pdf_files[idx]].name)
  /\ idx' = Len(pdf_files) + 1
  /\ UNCHANGED <<program, console, files, outputs, log>>

\* main.py lines 241-252: the name is printed, extract_outline returns a
\* result, also the degraded one of its except branch, which prints the
\* error first (line 167), the JSON is written over whatever the output
\* file held, and the output name is printed
MainWrite ==
  /\ program = "main"
  /\ idx <= Len(pdf_files)
  /\ Prints(files[pdf_files[idx]].name)
  /\ LET write(i, result) ==
           /\ WriteSucceeds(MainOutName(files[i]), result)
           /\ outputs' = WriteMain(MainOutName(files[i]), result)
           /\ log' = log \o MainLines(i) \o <<[event |-> "Generated", file |-> i]>>
     IN  write(pdf_files[idx], main_extract_outline(files[pdf_files[idx]].doc))
  /\ idx' = idx + 1
  /\ UNCHANGED <<program, console, files>>

\* main.py lines 241-250: extract_outline returns a result and the write
\* raises, in open (the output file is not touched) or in json.dump (the
\* file is left truncated); no handler is around the write, so the
\* exception leaves the loop and main: "Generated" is not printed and the
\* files that follow are not processed
MainWriteError ==
  /\ program = "main"
  /\ idx <= Len(pdf_files)
  /\ Prints(files[pdf_files[idx]].name)
  /\ LET fail(i, result) ==
           /\ ~WriteSucceeds(MainOutName(files[i]), result)
           /\ outputs' = IF OpenFails(MainOutName(files[i])) THEN outputs
                         ELSE WriteMain(MainOutName(files[i]), Truncated)
           /\ log' = log \o MainLines(i)
     IN  fail(pdf_files[idx], main_extract_outline(files[pdf_files[idx]].doc))
  /\ idx' = Len(pdf_files) + 1
  /\ UNCHANGED <<program, console, files>>

Next ==
  \/ RunSkip \/ RunWrite \/ RunWriteError \/ RunError \/ RunAbort
  \/ MainNoFiles \/ MainPrintError \/ MainWrite \/ MainWriteError

\* the loop of the running program has ended, at the end of the listing or
\* by an exception that left it
Done ==
  \/ program = "run" /\ idx > Len(files)
  \/ program = "main" /\ idx > Len(pdf_files)

\* the state after the listing is read and before the first file
Start(listings) ==
  /\ program \in {"run", "main"}
  /\ console \in [encoding : {"utf-8", "ascii"},
                  errors : {"strict", "surrogateescape"}]
  /\ files \in {l \in listings : ValidListing(l)}
  /\ idx = 1
  /\ outputs = [i \in DOMAIN files |-> <<>>]
  /\ log = <<>>

(***************************************************************************)
(* Input documents                                                         *)
(***************************************************************************)
Arial == <<"A","r","i","a","l">>
ArialBold == <<"A","r","i","a","l","-","B","o","l","d">>

NoMeta == [has |-> FALSE, title |-> <<>>]

MkSpan(text, size, flags, font) ==
  [text |-> text, size |-> size, flags |-> flags, font |-> font]

\* a line of one span
MkLine(text, size, flags, font, y) ==
  [spans |-> <<MkSpan(text, size, flags, font)>>, y |-> y, bboxOk |-> TRUE]

MkPage(lines, height) == [broken |-> FALSE, height |-> height, lines |-> lines]

MkDoc(meta, pages) == [readable |-> TRUE, meta |-> meta, pages |-> pages]

\* a file that fitz.open rejects
Unreadable == [readable |-> FALSE, meta |-> NoMeta, pages |-> <<>>]

\* a document without pages
EmptyDoc == MkDoc(NoMeta, <<>>)

\* placed is a sequence of [page, line] in delivery order: the document whose
\* page p holds the lines placed on p, in that order
LinesOn(placed, p) ==
  LET on == SelectSeq(placed, LAMBDA pl : pl.page = p)
  IN  [i \in DOMAIN on |-> on[i].line]

DocOf(meta, placed, npages, height) ==
  MkDoc(meta, [p \in 1..npages |-> MkPage(LinesOn(placed, p), height)])

SeqsUpTo(S, n) == UNION {[1..k -> S] : k \in 0..n}

\* file names by suffix
LowerPdfName == <<"a",".","p","d","f">>
UpperPdfName == <<"a",".","P","D","F">>
MixedPdfName == <<"a",".","P","d","f">>
TxtName == <<"a",".","t","x","t">>

\* the name of the bytes a FF . p d f
EscapedPdfName == <<"a","udcff",".","p","d","f">>

\* the longest name a PDF can have: its output name is one byte too long
LongPdfName == [i \in 1..(NameMax - Len(PdfSuffix)) |-> "a"] \o PdfSuffix

\* the listings of one file holding a document of Docs, and the listings
\* every batch driver must cope with: no PDF at all, a PDF that does not
\* open, an upper-case suffix, a name whose output name is too long, a name
\* that is not UTF-8
OneFile(Docs) ==
  {<<[name |-> LowerPdfName, doc |-> d]>> : d \in Docs}
    \cup {<<[name |-> TxtName, doc |-> EmptyDoc]>>,
          <<[name |-> LowerPdfName, doc |-> Unreadable]>>,
          <<[name |-> UpperPdfName, doc |-> EmptyDoc]>>,
          <<[name |-> LongPdfName, doc |-> EmptyDoc]>>,
          <<[name |-> EscapedPdfName, doc |-> EmptyDoc]>>}

T_Introduction == <<"1","."," ","I","n","t","r","o","d","u","c","t","i","o","n">>
T_Background == <<"1",".","1"," ","B","a","c","k","g","r","o","u","n","d">>
T_Report == <<"R","e","p","o","r","t"," ","2","0","2","4">>
T_ReportPadded == <<" ","R","e","p","o","r","t"," ","2","0","2","4"," ">>
T_Blank == <<" "," "," ">>
T_Overview == <<"O","v","e","r","v","i","e","w">>
T_Summary == <<"S","u","m","m","a","r","y"," ","N","o","t","e","s">>
T_GoalsMet == <<"G","o","a","l","s"," ","M","e","t">>
T_GoalsMetUpper == <<"G","O","A","L","S"," ","M","E","T">>
T_GoalsMetWide == <<"G","o","a","l","s","u00a0"," ","M","e","t">>
T_Body == <<"p","l","a","i","n"," ","b","o","d","y"," ","t","e","x","t">>
T_Scope == <<"P","r","o","j","e","c","t"," ","S","c","o","p","e">>

(***************************************************************************)
(* Batches: up to MaxFiles files, readable or not, with any suffix         *)
(***************************************************************************)
MaxFiles == 3

\* one page: a heading and a line of body text
GoodDoc ==
  MkDoc(NoMeta, <<MkPage(<<MkLine(T_Summary, 1800, 18, ArialBold, 40),
                           MkLine(T_Body, 1200, 0, Arial, 300)>>, 800)>>)

\* a second page whose get_text raises
BrokenPageDoc ==
  MkDoc(NoMeta, <<MkPage(<<MkLine(T_Scope, 1800, 18, ArialBold, 40)>>, 800),
                  [broken |-> TRUE, height |-> 800, lines |-> <<>>]>>)

\* a heading that holds a lone surrogate, as a damaged character map yields
SurrogateDoc ==
  MkDoc(NoMeta, <<MkPage(<<MkLine(<<"P","r","o","j","e","c","t"," ","ud800"," ",
                                    "S","c","o","p","e">>,
                                  1800, 18, ArialBold, 40),
                           MkLine(T_Body, 1200, 0, Arial, 300)>>, 800)>>)

BatchFiles ==
  {[name |-> LowerPdfName, doc |-> GoodDoc],
   [name |-> LowerPdfName, doc |-> SurrogateDoc],
   [name |-> LongPdfName, doc |-> Unreadable],
   [name |-> EscapedPdfName, doc |-> GoodDoc],
   [name |-> LowerPdfName, doc |-> Unreadable],
   [name |-> LowerPdfName, doc |-> BrokenPageDoc],
   [name |-> UpperPdfName, doc |-> EmptyDoc],
   [name |-> MixedPdfName, doc |-> GoodDoc],
   [name |-> TxtName, doc |-> EmptyDoc]}

\* file i gets the stem i: the names and the output names all differ
Stems == <<"1","2","3","4","5","6","7","8","9">>

Renamed(listing) ==
  [i \in DOMAIN listing |->
     [name |-> <<Stems[i]>> \o Tail(listing[i].name), doc |-> listing[i].doc]]

\* the listings with a name of their own for every file, and those of files
\* that differ in the case of the suffix only and so share one output name
InitBatch ==
  Start({Renamed(l) : l \in SeqsUpTo(BatchFiles, MaxFiles) \ {<<>>}}
          \cup {l \in SeqsUpTo(BatchFiles, MaxFiles) \ {<<>>} : DistinctNames(l)})

SpecBatch == InitBatch /\ [][Next]_vars

\* the extraction of the document of file i fails
ExtractionFails(i) ==
  IF program = "run" THEN Raises(files[i].doc) ELSE MainFails(files[i].doc)

\* the PDFs of the listing, as the running program selects them
IsPdf(i) == IF program = "run" THEN RunIsPdf(files[i]) ELSE MainIsPdf(files[i])

\* the batch has ended: the loop is over and main.py, when it has nothing
\* to do, has said so
Ended == Done /\ (program = "main" /\ pdf_files = <<>> => log # <<>>)

\* the processing of file i fails on its own account: the print of one of
\* its lines, the extraction of its document, or the write of its result
OwnFailure(i) ==
  IF program = "run"
  THEN \/ ~(Prints(files[i].name) /\ Encodes(CheckMark))
       \/ Raises(files[i].doc)
       \/ ~WriteSucceeds(RunOutName(files[i]), extract_outline(files[i].doc))
  ELSE \/ ~Prints(files[i].name)
       \/ ~WriteSucceeds(MainOutName(files[i]), main_extract_outline(files[i].doc))

\* the line that closes the processing of file i, printed after the write
Closing(i) ==
  [event |-> IF program = "run" THEN "Processed" ELSE "Generated", file |-> i]

\* C7: a failing document does not stop the batch loop.  When the batch has
\* ended and the extraction of a document of the listing failed, every
\* other PDF of the listing that does not fail on its own account was
\* processed to the end (the console has its closing line) and its output
\* JSON was written (the output file exists), wherever the failing
\* document stands in the listing and however many documents fail.
C7_BatchContinues ==
  Ended =>
    \A k \in DOMAIN files :
      (IsPdf(k) /\ ExtractionFails(k)) =>
        \A i \in DOMAIN files \ {k} :
          (IsPdf(i) /\ ~OwnFailure(i)) =>
            Closing(i) \in Range(log) /\ outputs[i] # <<>>

(***************************************************************************)
(* Titles: one page of up to MaxTitleLines lines, under every metadata     *)
(* title                                                                   *)
(***************************************************************************)
MaxTitleLines == 3

\* metadata titles: None, empty, blank, plain, padded, and the fallback text
MetaTitles ==
  {NoMeta,
   [has |-> TRUE, title |-> <<>>],
   [has |-> TRUE, title |-> T_Blank],
   [has |-> TRUE, title |-> T_Report],
   [has |-> TRUE, title |-> T_ReportPadded],
   [has |-> TRUE, title |-> UntitledDocument]}

\* an H2 heading high on the page, an H1 heading below it, body text, and a
\* short line that is no heading
TitleLines ==
  {MkLine(T_GoalsMet, 1200, 2, Arial, 100),
   MkLine(T_Summary, 1800, 0, ArialBold, 300),
   MkLine(T_Body, 1200, 0, Arial, 500),
   MkLine(<<"p",".","4">>, 1200, 0, Arial, 700)}

TitleDocs ==
  {MkDoc(m, <<MkPage(ls, 800)>>) :
     m \in MetaTitles, ls \in SeqsUpTo(TitleLines, MaxTitleLines)}

InitTitle == Start(OneFile(TitleDocs))

SpecTitle == InitTitle /\ [][Next]_vars

\* the files run.py has written a result for
RunWritten == {i \in DOMAIN files : program = "run" /\ outputs[i] # <<>>}

\* the metadata title is present and non-empty after trimming
UsableMeta(meta) == meta.has /\ Strip(meta.title) # <<>>

\* C1: every result run.py's extract_outline returns has a non-empty title.
C1_TitleNonEmpty ==
  \A i \in RunWritten : outputs[i][1].title # <<>>

\* C4: when the metadata title is present and non-empty after trimming, the
\* title run.py returns is that trimmed metadata title.
C4_MetadataTitleWins ==
  \A i \in RunWritten :
    UsableMeta(files[i].doc.meta)
      => outputs[i][1].title = Strip(files[i].doc.meta.title)

\* the positions of the H1 entries of an outline
H1Positions(outline) == {k \in DOMAIN outline : outline[k].level = "H1"}

\* C8: without a usable metadata title and with an H1 entry in the outline,
\* the title run.py returns is the text of the first H1 entry.
C8_TitleIsFirstH1 ==
  \A i \in RunWritten :
    LET outline == outputs[i][1].outline
        h1 == H1Positions(outline)
    IN  (~UsableMeta(files[i].doc.meta) /\ h1 # {})
          => outputs[i][1].title
               = outline[CHOOSE k \in h1 : \A j \in h1 : k <= j].text

(***************************************************************************)
(* Outlines: up to MaxOutlineLines lines, each on one of two pages, in any *)
(* delivery order, with texts that repeat                                  *)
(***************************************************************************)
MaxOutlineLines == 3

\* "Overview" as body text and as a heading, a heading between them, and
\* three spellings of one heading text
OutlineLines ==
  {MkLine(T_Overview, 1200, 0, Arial, 200),
   MkLine(T_Overview, 1200, 18, ArialBold, 500),
   MkLine(T_Summary, 1400, 18, ArialBold, 300),
   MkLine(T_GoalsMet, 1200, 18, ArialBold, 100),
   MkLine(T_GoalsMetUpper, 1200, 18, ArialBold, 400),
   MkLine(T_GoalsMetWide, 1200, 18, ArialBold, 600)}

OutlinePlaced == [page : {1, 2}, line : OutlineLines]

OutlineDocs ==
  {DocOf(NoMeta, placed, 2, 800) : placed \in SeqsUpTo(OutlinePlaced, MaxOutlineLines)}

InitOutline == Start(OneFile(OutlineDocs))

SpecOutline == InitOutline /\ [][Next]_vars

\* the files either program has written a result for
Written == {i \in DOMAIN files : outputs[i] # <<>>}

\* C2: in the outline run.py returns, (page, yPosition) is non-decreasing
\* from each entry to the next, the yPosition of an entry being the y of the
\* line it was classified from.
C2_ReadingOrder ==
  \A i \in RunWritten :
    LET spans == Spans(files[i].doc)
        kept == Kept(spans)
    IN  /\ outputs[i][1].outline = [k \in DOMAIN kept |-> Entry(kept[k])]
        /\ \A k \in 1..(Len(kept) - 1) :
             ~KeyLess(<<kept[k + 1].page, spans[kept[k + 1].row].y>>,
                      <<kept[k].page, spans[kept[k].row].y>>)

\* C3: no two entries of a returned outline share (lowercased text, page),
\* in the run.py pipeline and in the main.py pipeline.
C3_UniqueEntries ==
  \A i \in Written :
    LET outline == outputs[i][1].outline
    IN  \A j, k \in DOMAIN outline :
          (j # k /\ outline[j].page = outline[k].page)
            => Lower(outline[j].text) # Lower(outline[k].text)

\* run.py wrote an outline with an entry whose lowercased text was accepted
\* twice on its page
C3_Witness ==
  \E i \in RunWritten :
    LET spans == Spans(files[i].doc)
        hs == PotentialHeadings(spans, BodySize(spans), 1)
    IN  /\ outputs[i][1].outline # <<>>
        /\ \E j, k \in DOMAIN hs :
             /\ j # k
             /\ hs[j].page = hs[k].page
             /\ hs[j].text # hs[k].text
             /\ Lower(hs[j].text) = Lower(hs[k].text)

\* C9: an accepted heading that passes the fragment filters has an outline
\* entry with its normalized text on its own page (it is dropped only for an
\* earlier entry of the same page).
C9_DedupPerPage ==
  \A i \in RunWritten :
    LET spans == Spans(files[i].doc)
        hs == PotentialHeadings(spans, BodySize(spans), 1)
        outline == outputs[i][1].outline
    IN  \A j \in DOMAIN hs :
          (~IsFragment(hs[j].text) /\ ~HasFragmentEnding(hs[j].text))
            => \E k \in DOMAIN outline :
                 /\ outline[k].page = hs[j].page
                 /\ TextKey(outline[k].text) = TextKey(hs[j].text)

(***************************************************************************)
(* The numbered-sections scenario: one page whose two lines are            *)
(* "1. Introduction" (size 18, bold, top of the page) and, lower,          *)
(* "1.1 Background" (size 14, bold), in either delivery order.  Bold is    *)
(* bit 16 of the flags, as the PDF layer reports it; the italic bit and    *)
(* the font name are free.                                                 *)
(***************************************************************************)
BoldFlags == {16, 18}
ScenarioFonts == {Arial, ArialBold}

ScenarioPairs ==
  {<<MkLine(T_Introduction, 1800, f1, n1, y1),
     MkLine(T_Background, 1400, f2, n2, y2)>> :
     f1 \in BoldFlags, n1 \in ScenarioFonts, y1 \in {40, 155},
     f2 \in BoldFlags, n2 \in ScenarioFonts, y2 \in {100, 158, 400}}

ScenarioDocs ==
  {MkDoc(NoMeta, <<MkPage(ls, 800)>>) :
     ls \in UNION {{pr, <<pr[2], pr[1]>>} :
                     pr \in {q \in ScenarioPairs : q[1].y < q[2].y}}}

InitScenario == Start(OneFile(ScenarioDocs))

SpecScenario == InitScenario /\ [][Next]_vars

\* the line of the scenario page that carries the text
ScenarioLine(doc, text) ==
  LET ls == doc.pages[1].lines
  IN  ls[CHOOSE k \in DOMAIN ls : ls[k].spans[1].text = text]

\* doc is a document of the scenario
IsScenario(doc) ==
  /\ doc.readable
  /\ Len(doc.pages) = 1
  /\ ~doc.pages[1].broken
  /\ Len(doc.pages[1].lines) = 2
  /\ {doc.pages[1].lines[k].spans : k \in {1, 2}}
       \subseteq {<<MkSpan(T_Introduction, 1800, f, n)>> :
                    f \in BoldFlags, n \in ScenarioFonts}
           \cup {<<MkSpan(T_Background, 1400, f, n)>> :
                    f \in BoldFlags, n \in ScenarioFonts}
  /\ doc.pages[1].lines[1].spans[1].text # doc.pages[1].lines[2].spans[1].text
  /\ \A k \in {1, 2} : doc.pages[1].lines[k].bboxOk
  /\ TopOfPage(ScenarioLine(doc, T_Introduction).y, doc.pages[1].height)
  /\ ScenarioLine(doc, T_Introduction).y < ScenarioLine(doc, T_Background).y

IntroductionH1 == [level |-> "H1", text |-> T_Introduction, page |-> 1]
IntroductionH2 == [level |-> "H2", text |-> T_Introduction, page |-> 1]
BackgroundH2 == [level |-> "H2", text |-> T_Background, page |-> 1]

\* C5 as stated: the scenario yields the outline [H1 "1. Introduction",
\* H2 "1.1 Background"].
C5_ScenarioAsStated ==
  \A i \in Written :
    IsScenario(files[i].doc)
      => outputs[i][1].outline = <<IntroductionH1, BackgroundH2>>

\* C5 as amended: run.py returns the outline that starts with H2
\* "1. Introduction" and goes on with H2 "1.1 Background" exactly when that
\* line starts in the top fifth of the page and has the weight run.py looks
\* for (flag bit 2, or "Bold" in the font name); main.py returns
\* [H1 "1. Introduction", H2 "1.1 Background"] when the "1. Introduction"
\* line starts at y >= 150, and otherwise makes "1. Introduction" the title
\* and returns [H2 "1.1 Background"].
C5_ScenarioAmended ==
  \A i \in Written :
    LET doc == files[i].doc
        intro == ScenarioLine(doc, T_Introduction)
        back == ScenarioLine(doc, T_Background)
        outline == outputs[i][1].outline
    IN  IsScenario(doc) =>
          /\ program = "run" =>
               outline =
                 IF Weight(back.spans[1]) /\ TopOfPage(back.y, doc.pages[1].height)
                   THEN <<IntroductionH2, BackgroundH2>>
                   ELSE <<IntroductionH2>>
          /\ program = "main" =>
               IF intro.y >= 150
                 THEN outline = <<IntroductionH1, BackgroundH2>>
                 ELSE /\ outline = <<BackgroundH2>>
                      /\ outputs[i][1].title = T_Introduction

\* run.py wrote the two-entry outline of a scenario document
C5_Witness ==
  \E i \in RunWritten :
    /\ IsScenario(files[i].doc)
    /\ outputs[i][1].outline = <<IntroductionH2, BackgroundH2>>

(***************************************************************************)
(* Failing pages: two pages of up to MaxPageLines lines in all, with lines *)
(* whose bbox cannot be read, and pages whose get_text raises              *)
(***************************************************************************)
MaxPageLines == 3

BadLine(text, size, flags, font, y) ==
  [spans |-> <<MkSpan(text, size, flags, font)>>, y |-> y, bboxOk |-> FALSE]

PageLines ==
  {MkLine(T_Summary, 1400, 18, ArialBold, 300),
   MkLine(T_GoalsMet, 1200, 18, ArialBold, 100),
   BadLine(T_Scope, 1200, 18, ArialBold, 400),
   BadLine(T_Blank, 1200, 0, Arial, 500)}

PagePlaced == [page : {1, 2}, line : PageLines]

\* doc with get_text of page p raising
BreakPage(doc, p) ==
  [doc EXCEPT !.pages =
     [q \in DOMAIN doc.pages |->
        IF q = p THEN [broken |-> TRUE, height |-> doc.pages[q].height,
                       lines |-> <<>>]
        ELSE doc.pages[q]]]

PageDocs ==
  LET whole == {DocOf(NoMeta, placed, 2, 800) :
                  placed \in SeqsUpTo(PagePlaced, MaxPageLines)}
  IN  whole \cup {BreakPage(d, 2) : d \in whole}

InitPages == Start(OneFile(PageDocs))

SpecPages == InitPages /\ [][Next]_vars

\* the collection of page p of doc fails (the handler of lines 91-93 runs)
PageFails(doc, p) == CollectPage(doc.pages[p], p, <<>>).raised

\* doc with every failing page replaced by a page without lines
WithoutFailingPages(doc) ==
  [doc EXCEPT !.pages =
     [p \in DOMAIN doc.pages |->
        IF PageFails(doc, p) THEN MkPage(<<>>, doc.pages[p].height)
        ELSE doc.pages[p]]]

\* C6: a page whose collection fails contributes no span, and the other
\* pages are processed as usual: the result is the one of the document
\* without the lines of its failing pages.
C6_FailingPageSkipped ==
  \A i \in RunWritten :
    outputs[i][1] = extract_outline(WithoutFailingPages(files[i].doc))

(***************************************************************************)
(* Body sizes: one page of up to MaxSizeLines lines of every size          *)
(***************************************************************************)
MaxSizeLines == 4

\* no size, 12pt, 12.2pt twice over (12.25 is a tie and goes to the even
\* tenth), 12.3pt (the double of 12.35 lies below it) and 14pt
SizeLines ==
  {MkLine(T_Body, s, 0, Arial, 300) : s \in {0, 1200, 1220, 1225, 1235, 1400}}

SizeDocs ==
  {MkDoc(NoMeta, <<MkPage(ls, 800)>>) : ls \in SeqsUpTo(SizeLines, MaxSizeLines)}

InitSizes == Start(OneFile(SizeDocs))

SpecSizes == InitSizes /\ [][Next]_vars

\* the rounded sizes with the highest count
MostFrequent(sizes) ==
  {sizes[j] : j \in {k \in DOMAIN sizes :
                       \A m \in DOMAIN sizes :
                         CountOf(sizes, sizes[m]) <= CountOf(sizes, sizes[k])}}

\* C10: the body size is the most frequent rounded positive size, the
\* smallest one when several share the highest count, and 12.0 when no span
\* has a positive size.
C10_BodySize ==
  \A i \in RunWritten :
    LET spans == Spans(files[i].doc)
        sizes == RoundedSizes(spans)
        top == MostFrequent(sizes)
    IN  spans # <<>> =>
          BodySize(spans) =
            IF sizes = <<>> THEN 1200
            ELSE CHOOSE v \in top : \A w \in top : v <= w

====
